---------------------------- MODULE Spec2Model ----------------------------
(***************************************************************************)
(* Model of the reference-resolution pipeline of dutch-diatheke.py:        *)
(* normalize_text, build_book_mapping, expand_reference_shorthand,         *)
(* parse_reference and the batch loop of main.                             *)
(*                                                                         *)
(* A Python str is modelled as a sequence of characters; a character is a  *)
(* one-character TLA+ string, except for the non-ASCII characters, which   *)
(* carry an ASCII name: "u-uml" is U+00FC, "U+0308" the combining          *)
(* diaeresis, "en-dash" U+2013 and "em-dash" U+2014.                       *)
(***************************************************************************)
EXTENDS Integers, Sequences, FiniteSets, TLC

(***************************************************************************)
(* Bounds of the model.                                                    *)
(***************************************************************************)
\* longest input string given to normalize_text in SpecNorm
MaxNormLen == 3
\* most fragments (separator-delimited pieces) of a generated reference
MaxFrags == 3
\* most references of a batch read from stdin
MaxRefs == 2

(***************************************************************************)
(* Characters and character classes.                                       *)
(***************************************************************************)
LowerSeq == <<"a", "b", "c", "d", "e", "f", "g", "h", "i", "j", "k", "l", "m",
              "n", "o", "p", "q", "r", "s", "t", "u", "v", "w", "x", "y", "z">>
UpperSeq == <<"A", "B", "C", "D", "E", "F", "G", "H", "I", "J", "K", "L", "M",
              "N", "O", "P", "Q", "R", "S", "T", "U", "V", "W", "X", "Y", "Z">>
DigitSeq == <<"0", "1", "2", "3", "4", "5", "6", "7", "8", "9">>

Range(f) == {f[i] : i \in DOMAIN f}

\* [a-z]
AsciiLower == Range(LowerSeq)
AsciiUpper == Range(UpperSeq)
\* \d
Digits == Range(DigitSeq)
\* \s, and the characters str.strip() and str.split() treat as blank
WhiteSpace == {" ", "\n"}
\* precomposed letters of the alphabet and their NFD base letter
Precomposed == {"u-uml"}
\* unicodedata.combining(c) # 0
CombiningMarks == {"U+0308"}
\* \w
WordChars == AsciiLower \cup AsciiUpper \cup Digits \cup Precomposed \cup {"_"}

(***************************************************************************)
(* str operations.                                                         *)
(***************************************************************************)
\* c in s
Contains(s, c) == \E i \in DOMAIN s : s[i] = c

\* the first index of c in s; Len(s) + 1 when there is none
RECURSIVE IndexFrom(_, _, _)
IndexFrom(s, c, p) ==
    IF p > Len(s) THEN Len(s) + 1
    ELSE IF s[p] = c THEN p ELSE IndexFrom(s, c, p + 1)

\* s.lstrip()
RECURSIVE LStrip(_)
LStrip(s) ==
    IF s # <<>> /\ Head(s) \in WhiteSpace THEN LStrip(Tail(s)) ELSE s

\* s.rstrip()
RECURSIVE RStrip(_)
RStrip(s) ==
    IF s # <<>> /\ s[Len(s)] \in WhiteSpace
    THEN RStrip(SubSeq(s, 1, Len(s) - 1)) ELSE s

\* s.strip()
Strip(s) == RStrip(LStrip(s))

\* s.split(sep): the pieces between the occurrences of sep, empty ones kept
RECURSIVE Split(_, _)
Split(s, sep) ==
    LET p == IndexFrom(s, sep, 1)
    IN  IF p > Len(s) THEN <<s>>
        ELSE <<SubSeq(s, 1, p - 1)>> \o Split(SubSeq(s, p + 1, Len(s)), sep)

\* the length of the run of non-blank characters starting s
RECURSIVE WordLen(_)
WordLen(s) ==
    IF s = <<>> \/ Head(s) \in WhiteSpace THEN 0 ELSE 1 + WordLen(Tail(s))

\* s.split(): the maximal runs of non-blank characters
RECURSIVE SplitWS(_)
SplitWS(s) ==
    LET t == LStrip(s)
        n == WordLen(t)
    IN  IF t = <<>> THEN <<>>
        ELSE <<SubSeq(t, 1, n)>> \o SplitWS(SubSeq(t, n + 1, Len(t)))

\* sep.join(parts)
RECURSIVE Join(_, _)
Join(parts, sep) ==
    IF parts = <<>> THEN <<>>
    ELSE IF Len(parts) = 1 THEN parts[1]
    ELSE parts[1] \o sep \o Join(Tail(parts), sep)

\* s.replace(" ", "")
RECURSIVE RemoveSpaces(_)
RemoveSpaces(s) ==
    IF s = <<>> THEN <<>>
    ELSE IF Head(s) = " " THEN RemoveSpaces(Tail(s))
    ELSE <<Head(s)>> \o RemoveSpaces(Tail(s))

\* [f(x) for x in xs if keep(x)] with f = strip, keep = non-blank
RECURSIVE StripNonBlank(_)
StripNonBlank(parts) ==
    IF parts = <<>> THEN <<>>
    ELSE IF Strip(Head(parts)) = <<>> THEN StripNonBlank(Tail(parts))
    ELSE <<Strip(Head(parts))>> \o StripNonBlank(Tail(parts))

\* pat occurs in s at position p
MatchAt(s, p, pat) ==
    /\ p + Len(pat) - 1 <= Len(s)
    /\ \A k \in 1..Len(pat) : s[p + k - 1] = pat[k]

(***************************************************************************)
(* normalize_text, one definition per statement.                           *)
(***************************************************************************)
\* line 148: NFD decomposition, combining marks dropped
RECURSIVE StripDiacritics(_)
StripDiacritics(s) ==
    IF s = <<>> THEN <<>>
    ELSE LET c == Head(s)
             d == IF c = "u-uml" THEN <<"u">>
                  ELSE IF c \in CombiningMarks THEN <<>>
                  ELSE <<c>>
         IN  d \o StripDiacritics(Tail(s))

\* line 150: str.lower()
LowerChar(c) ==
    IF c \in AsciiUpper
    THEN LowerSeq[CHOOSE i \in DOMAIN UpperSeq : UpperSeq[i] = c]
    ELSE c
ToLower(s) == [i \in DOMAIN s |-> LowerChar(s[i])]

\* line 152: the two long dashes become '-'
ReplaceDashes(s) ==
    [i \in DOMAIN s |-> IF s[i] \in {"en-dash", "em-dash"} THEN "-" ELSE s[i]]

\* line 154: the pattern [.,;!?()[]{}] is the character class [.,;!?()[]
\* followed by the three literal characters {}]
PunctClass == {".", ",", ";", "!", "?", "(", ")", "["}
PunctTail == <<"{", "}", "]">>
RECURSIVE SubPunctuation(_, _)
SubPunctuation(s, p) ==
    IF p > Len(s) THEN <<>>
    ELSE IF s[p] \in PunctClass /\ MatchAt(s, p + 1, PunctTail)
         THEN <<" ">> \o SubPunctuation(s, p + 1 + Len(PunctTail))
         ELSE <<s[p]>> \o SubPunctuation(s, p + 1)

\* line 156: roman_map, in insertion order
roman_map == << <<<<"i">>, "1">>, <<<<"i", "i">>, "2">>,
                <<<<"i", "i", "i">>, "3">>, <<<<"i", "v">>, "4">>,
                <<<<"v">>, "5">>, <<<<"v", "i">>, "6">> >>

\* \b at the gap before position p of s
WordBoundary(s, p) ==
    LET before == p > 1 /\ s[p - 1] \in WordChars
        after  == p <= Len(s) /\ s[p] \in WordChars
    IN  before # after

\* line 158: re.sub(rf'\b{roman}\b', arabic, text)
RECURSIVE SubRoman(_, _, _, _)
SubRoman(s, p, roman, arabic) ==
    IF p > Len(s) THEN <<>>
    ELSE IF /\ MatchAt(s, p, roman)
            /\ WordBoundary(s, p)
            /\ WordBoundary(s, p + Len(roman))
         THEN <<arabic>> \o SubRoman(s, p + Len(roman), roman, arabic)
         ELSE <<s[p]>> \o SubRoman(s, p + 1, roman, arabic)

\* lines 157-158: the substitutions, one after the other
RECURSIVE RomanToArabic(_, _)
RomanToArabic(s, k) ==
    IF k > Len(roman_map) THEN s
    ELSE RomanToArabic(SubRoman(s, 1, roman_map[k][1], roman_map[k][2]), k + 1)

\* lines 160-161: re.sub(r'(A)(B)', r'\1 \2', text)
RECURSIVE InsertSpace(_, _, _)
InsertSpace(s, A, B) ==
    IF Len(s) < 2 THEN s
    ELSE IF s[1] \in A /\ s[2] \in B
         THEN <<s[1], " ", s[2]>> \o InsertSpace(SubSeq(s, 3, Len(s)), A, B)
         ELSE <<s[1]>> \o InsertSpace(Tail(s), A, B)

\* line 163: re.sub(r'\s+', ' ', text)
RECURSIVE CollapseSpaces(_)
CollapseSpaces(s) ==
    IF s = <<>> THEN <<>>
    ELSE IF Head(s) \in WhiteSpace
         THEN <<" ">> \o CollapseSpaces(LStrip(s))
         ELSE <<Head(s)>> \o CollapseSpaces(Tail(s))

normalize_text(text) ==
    LET t1 == StripDiacritics(text)
        t2 == ToLower(t1)
        t3 == ReplaceDashes(t2)
        t4 == SubPunctuation(t3, 1)
        t5 == RomanToArabic(t4, 1)
        t6 == InsertSpace(t5, Digits, AsciiLower)
        t7 == InsertSpace(t6, AsciiLower, Digits)
        t8 == CollapseSpaces(t7)
    IN  Strip(t8)


(***************************************************************************)
(* The alias tables: the entries of CANONICAL_BOOKS and APOCRYPHAL_BOOKS   *)
(* the model keeps, in source order, each <<alias, canonical id>>.         *)
(***************************************************************************)
Genesis == <<"G", "e", "n", "e", "s", "i", "s">>
Exodus == <<"E", "x", "o", "d", "u", "s">>
Joshua == <<"J", "o", "s", "h", "u", "a">>
Job == <<"J", "o", "b">>
Psalms == <<"P", "s", "a", "l", "m", "s">>
Obadiah == <<"O", "b", "a", "d", "i", "a", "h">>
Matthew == <<"M", "a", "t", "t", "h", "e", "w">>
Corinthians1 == <<"1", "C", "o", "r", "i", "n", "t", "h", "i", "a", "n", "s">>
Philemon == <<"P", "h", "i", "l", "e", "m", "o", "n">>
John2 == <<"2", "J", "o", "h", "n">>
John3 == <<"3", "J", "o", "h", "n">>
Jude == <<"J", "u", "d", "e">>
Susanna == <<"S", "u", "s", "a", "n", "n", "a">>

CANONICAL_BOOKS ==
    << <<<<"g", "e", "n", "e", "s", "i", "s">>, Genesis>>,
       <<<<"g", "e", "n">>, Genesis>>,
       <<<<"e", "x", "o", "d", "u", "s">>, Exodus>>,
       <<<<"e", "x">>, Exodus>>,
       <<<<"j", "o">>, Joshua>>,
       <<<<"j", "o", "b">>, Job>>,
       <<<<"p", "s">>, Psalms>>,
       <<<<"o", "b">>, Obadiah>>,
       <<<<"m", "a", "t", "t", "h", "e", "u-uml", "s">>, Matthew>>,
       <<<<"1", "k", "o", "r">>, Corinthians1>>,
       <<<<"1", " ", "k", "o", "r">>, Corinthians1>>,
       <<<<"i", " ", "k", "o", "r">>, Corinthians1>>,
       <<<<"j", "u", "d", "e">>, Jude>>,
       <<<<"j", "u", "d">>, Jude>> >>

APOCRYPHAL_BOOKS ==
    << <<<<"s", "u", "s", "a", "n", "n", "a">>, Susanna>>,
       <<<<"s", "u", "s">>, Susanna>> >>

\* lines 174-182: each alias as written, normalized, and without spaces, in
\* the order the loop assigns them
RECURSIVE Variations(_)
Variations(entries) ==
    IF entries = <<>> THEN <<>>
    ELSE LET dutch_key == Head(entries)[1]
             english_value == Head(entries)[2]
             norm_key == normalize_text(dutch_key)
             no_space_key == RemoveSpaces(norm_key)
         IN  << <<dutch_key, english_value>>,
                <<norm_key, english_value>>,
                <<no_space_key, english_value>> >> \o Variations(Tail(entries))

\* the dict a sequence of assignments d[k] = v leaves: the last one wins
DictOf(pairs) ==
    [k \in {pairs[n][1] : n \in DOMAIN pairs} |->
        pairs[CHOOSE n \in DOMAIN pairs :
                 /\ pairs[n][1] = k
                 /\ \A m \in DOMAIN pairs : m > n => pairs[m][1] # k][2]]

build_book_mapping(include) ==
    DictOf(Variations(IF include THEN CANONICAL_BOOKS \o APOCRYPHAL_BOOKS
                      ELSE CANONICAL_BOOKS))

\* the two tables a run can build
MappingCanonical == build_book_mapping(FALSE)
MappingApocrypha == build_book_mapping(TRUE)
Mapping(include) == IF include THEN MappingApocrypha ELSE MappingCanonical

(***************************************************************************)
(* expand_reference_shorthand: the pure parts of the loop body.            *)
(***************************************************************************)
\* Python's None, and the truth value of an Optional[str]
None == <<"<None>">>
Truthy(x) == x # None /\ x # <<>>

\* [normalize_text(t) for t in tokens]
NormalizeEach(tokens) == [k \in DOMAIN tokens |-> normalize_text(tokens[k])]

\* line 233: the candidate is an alias, as joined or with its spaces removed
IsAlias(potential_book, mapping) ==
    \/ potential_book \in DOMAIN mapping
    \/ RemoveSpaces(potential_book) \in DOMAIN mapping

\* lines 231-241: the first i, from len(tokens) down to 1, whose first i
\* tokens, each normalized, form an alias; 0 when the loop ends without one
RECURSIVE BookPrefixLenFrom(_, _, _)
BookPrefixLenFrom(tokens, mapping, i) ==
    IF i < 1 THEN 0
    ELSE IF IsAlias(Join(NormalizeEach(SubSeq(tokens, 1, i)), <<" ">>), mapping)
         THEN i
         ELSE BookPrefixLenFrom(tokens, mapping, i - 1)

BookPrefixLen(comma_part, mapping) ==
    LET tokens == SplitWS(comma_part)
    IN  BookPrefixLenFrom(tokens, mapping, Len(tokens))

\* x.split(':')[0].strip()
BeforeColon(x) == Strip(Split(x, ":")[1])

\* line 236: last_book = " ".join(tokens[:i])
BookText(comma_part, i) == Join(SubSeq(SplitWS(comma_part), 1, i), <<" ">>)

\* lines 237-239: the chapter remembered after a fragment with its own book
ChapterAfterBook(comma_part, i, last_chapter) ==
    LET tokens == SplitWS(comma_part)
        rest == Join(SubSeq(tokens, i + 1, Len(tokens)), <<" ">>)
    IN  IF rest # <<>> /\ Contains(rest, ":") THEN BeforeColon(rest)
        ELSE last_chapter

\* ^\d+$ on a non-empty string
AllDigits(s) == s # <<>> /\ \A k \in DOMAIN s : s[k] \in Digits

\* line 255: re.match(r'^\d+(-\d+)?$', comma_part)
IsVerseNumber(comma_part) ==
    \/ AllDigits(comma_part)
    \/ \E p \in DOMAIN comma_part :
          /\ comma_part[p] = "-"
          /\ AllDigits(SubSeq(comma_part, 1, p - 1))
          /\ AllDigits(SubSeq(comma_part, p + 1, Len(comma_part)))

\* a test that takes any last_book, None too, for a book
HasBookContext_Always(last_book) == TRUE

\* line 249: if last_book
HasBookContext(last_book) == Truthy(last_book)

\* a test that forgot the chapter
HasChapterContext_BookOnly(last_book, last_chapter) == Truthy(last_book)

\* line 259: if last_book and last_chapter
HasChapterContext(last_book, last_chapter) ==
    Truthy(last_book) /\ Truthy(last_chapter)

\* line 250: f"{last_book} {comma_part}"
WithBook(last_book, comma_part) == last_book \o <<" ">> \o comma_part

\* line 261: f"{last_book} {last_chapter}:{comma_part}"
WithBookAndChapter(last_book, last_chapter, comma_part) ==
    last_book \o <<" ">> \o last_chapter \o <<":">> \o comma_part

\* a loop that carried the chapter over the semicolon
ChapterAfterSemiPart_Kept(last_chapter) == last_chapter

\* line 275: last_chapter = None
ChapterAfterSemiPart(last_chapter) == None

\* a loop that forgot the book with the chapter
BookAfterSemiPart_Cleared(last_book) == None

\* lines 273-275: the book context is kept
BookAfterSemiPart(last_book) == last_book

\* a split that strips the parts and keeps the blank ones
NonBlankParts_KeepBlank(s, sep) ==
    LET parts == Split(s, sep) IN [k \in DOMAIN parts |-> Strip(parts[k])]

\* line 207 and line 214
NonBlankParts(s, sep) == StripNonBlank(Split(s, sep))

(***************************************************************************)
(* parse_reference.                                                        *)
(***************************************************************************)
\* line 324
single_chapter_books == {Jude, Obadiah, Philemon, John2, John3}

\* a search that takes the shortest alias instead of the longest
RECURSIVE FindBookUp(_, _, _)
FindBookUp(tokens, mapping, j) ==
    IF j > Len(tokens) THEN [i |-> 0, book_part |-> <<>>, rest_part |-> <<>>]
    ELSE LET potential_book == Join(SubSeq(tokens, 1, j), <<" ">>)
             potential_rest == Join(SubSeq(tokens, j + 1, Len(tokens)), <<" ">>)
         IN  IF potential_book \in DOMAIN mapping
             THEN [i |-> j, book_part |-> potential_book,
                   rest_part |-> potential_rest]
             ELSE IF RemoveSpaces(potential_book) \in DOMAIN mapping
             THEN [i |-> j, book_part |-> RemoveSpaces(potential_book),
                   rest_part |-> potential_rest]
             ELSE FindBookUp(tokens, mapping, j + 1)
FindBook_Shortest(tokens, mapping, i) == FindBookUp(tokens, mapping, 1)

\* lines 297-311: the first i, from len(tokens) down to 1, whose first i
\* tokens joined with spaces, or joined and the spaces removed, are an alias
RECURSIVE FindBook(_, _, _)
FindBook(tokens, mapping, i) ==
    IF i < 1 THEN [i |-> 0, book_part |-> <<>>, rest_part |-> <<>>]
    ELSE LET potential_book == Join(SubSeq(tokens, 1, i), <<" ">>)
             potential_rest == Join(SubSeq(tokens, i + 1, Len(tokens)), <<" ">>)
             potential_book_no_space == RemoveSpaces(potential_book)
         IN  IF potential_book \in DOMAIN mapping
             THEN [i |-> i, book_part |-> potential_book,
                   rest_part |-> potential_rest]
             ELSE IF potential_book_no_space \in DOMAIN mapping
             THEN [i |-> i, book_part |-> potential_book_no_space,
                   rest_part |-> potential_rest]
             ELSE FindBook(tokens, mapping, i - 1)

\* a builder without the rule for the books of one chapter
BuildCanonical_NoSingleChapter(english_book, rest_part) ==
    IF rest_part = <<>> THEN english_book
    ELSE english_book \o <<" ">> \o Strip(rest_part)

\* lines 316-328: the canonical string of a matched book and its remainder
BuildCanonical(english_book, rest_part) ==
    IF rest_part = <<>> THEN english_book
    ELSE IF /\ ~Contains(rest_part, ":")
            /\ Strip(rest_part) # <<>>
            /\ english_book \in single_chapter_books
         THEN english_book \o <<" ", "1", ":">> \o Strip(rest_part)
         ELSE english_book \o <<" ">> \o Strip(rest_part)

\* the result of a call: the returned string, or the ValueError raised
parse_reference(reference, include) ==
    LET mapping == Mapping(include)
        tokens == SplitWS(normalize_text(reference))
        found == FindBook(tokens, mapping, Len(tokens))
        none == [i |-> 0, book_part |-> <<>>, rest_part |-> <<>>]
    IN  IF Strip(reference) = <<>>
        THEN [ok |-> FALSE, error |-> "EmptyReference", value |-> <<>>,
              tokens |-> <<>>, found |-> none]
        ELSE IF tokens = <<>>
        THEN [ok |-> FALSE, error |-> "InvalidReferenceFormat", value |-> <<>>,
              tokens |-> tokens, found |-> none]
        ELSE IF found.book_part = <<>>
        THEN [ok |-> FALSE, error |-> "UnknownBook", value |-> tokens[1],
              tokens |-> tokens, found |-> found]
        ELSE [ok |-> TRUE, error |-> "",
              value |-> BuildCanonical(mapping[found.book_part], found.rest_part),
              tokens |-> tokens, found |-> found]

\* a join without the space
CombinedReference_NoSpace(english_refs) == Join(english_refs, <<";">>)

\* line 419: '; '.join(english_refs)
CombinedReference(english_refs) == Join(english_refs, <<";", " ">>)

(***************************************************************************)
(* main: the inputs of a run.                                              *)
(***************************************************************************)
\* the fragments the generated references are made of
Fragments ==
    { <<"E", "x", " ", "9", ":", "9">>,
      <<"G", "e", "n", " ", "1", "0">>,
      <<"1", "0", ":", "1">>,
      <<"2", "5">>,
      <<"F", "o", "o">>,
      <<>> }
Separators == {<<",">>, <<";">>}

\* the references of exactly n fragments
RECURSIVE Generated(_)
Generated(n) ==
    IF n <= 1 THEN Fragments
    ELSE {r \o s \o f : r \in Generated(n - 1), s \in Separators, f \in Fragments}

\* the examples of the docstring of expand_reference_shorthand, lines 195-199
DocRef1 == <<"E", "x", " ", "9", ":", "9", ",", "2", "5">>
DocRef2 == <<"E", "x", " ", "9", ":", "9", ";", "2", "5">>
DocRef3 == <<"E", "x", " ", "9", ":", "9", ",", "2", "5", ";", " ",
             "1", "0", ":", "1">>
DocRef4 == <<"E", "x", " ", "9", ":", "9", ",", " ",
             "G", "e", "n", " ", "1", "0", ":", "1", "0">>
DocRef5 == <<"E", "x", " ", "9", ":", "9", ",", "2", "5", ";", " ",
             "1", "0", ":", "1", ";", " ",
             "G", "e", "n", "e", "s", "i", "s", " ", "1", "0", ":", "1", "0">>
DocRefs == {DocRef1, DocRef2, DocRef3, DocRef4, DocRef5}

\* further references given on the command line
Ref_Jude_5 == <<"J", "u", "d", "e", " ", "5">>
Ref_1_Kor_13_4 == <<"1", " ", "K", "o", "r", " ", "1", "3", ":", "4">>
Ref_Ex_Foo == <<"E", "x", " ", "9", ":", "9", ",", " ", "F", "o", "o", " ", "1">>
SampleRefs ==
    { Ref_Jude_5,
      Ref_1_Kor_13_4,
      Ref_Ex_Foo,
      <<"J", "u", "d", "e", " ", "1", ":", "5">>,
      <<"J", "u", "d", "e">>,
      <<"1", "K", "o", "r", " ", "1", "3", ":", "4">>,
      <<"I", " ", "K", "o", "r", " ", "1", "3", ":", "4">>,
      <<"O", "b", " ", "3", "-", "4">>,
      <<"J", "o", " ", "b", " ", "1">>,
      <<"P", "s", "2", "3", ":", "1">>,
      <<"E", "x", " ", "9", ":", "9", ",", " ", "3", "-", "4">>,
      <<"E", "x", " ", ":", "5", ",", " ", "7">>,
      <<"S", "u", "s", " ", "1", ":", "1">>,
      <<"M", "a", "t", "t", "h", "e", "u-uml", "s", " ", "5", ":", "3">>,
      <<" ">> }

\* the lines a batch on stdin is made of
StdinLines ==
    { DocRef1, Ref_Ex_Foo, <<"1", "0", ":", "1">>, Ref_Jude_5, <<>> }

\* the sequences over S of length at most n
RECURSIVE SeqsUpTo(_, _)
SeqsUpTo(S, n) ==
    IF n = 0 THEN {<<>>}
    ELSE LET shorter == SeqsUpTo(S, n - 1)
         IN  shorter \cup {Append(q, x) : q \in shorter, x \in S}

\* lines 393-394: the positional arguments, joined
FromArguments(reference) == <<Join(reference, <<" ">>)>>

\* lines 395-400: the lines of stdin, stripped, the empty ones left out
FromStdin(lines) == StripNonBlank(lines)

\* what diatheke, or run_diatheke itself, can return (lines 344-353)
ReturnCodes == {0, 1, 2, -15}

\* an assignment that keeps only the latest status
MaxExit_Latest(exit_code, rc) == rc

\* line 421: exit_code = max(exit_code, result)
MaxExit(exit_code, rc) == IF rc > exit_code THEN rc ELSE exit_code

\* line 424: exit_code = 1
ErrorExit == 1
\* line 427: return 130
InterruptExit == 130
\* line 404: return 1
HelpExit == 1

VARIABLES
    references,       \* main: the references collected from the input
    include_apocrypha,\* main: args.apocrypha
    idx,              \* main: position of `for ref in references`
    pc,               \* where the run is
    exit_code,        \* main: exit_code; the status returned when pc is final
    expanded_refs,    \* main: expanded_refs
    english_refs,     \* main: english_refs
    calls,            \* the keys run_diatheke was called with, in order
    stderr,           \* the ERROR lines printed, in order
    semicolon_parts,  \* expand_reference_shorthand: semicolon_parts
    si,               \* position of `for semi_part in semicolon_parts`
    comma_parts,      \* expand_reference_shorthand: comma_parts
    ci,               \* position of `for comma_part in comma_parts`
    last_book,        \* expand_reference_shorthand: last_book
    last_chapter,     \* expand_reference_shorthand: last_chapter
    result,           \* expand_reference_shorthand: result
    parsed,           \* parse_reference: the locals of the latest call
    nx, ny, nz, npc   \* normalize_text applied to nx once (ny) and twice (nz)

\* bible-format-wrapper.py
VARIABLES
    w_args,                \* main: args, the options of the command line
    w_output,              \* main: result.stdout, the text diatheke printed
    w_lines,               \* parse_diatheke_output: lines
    w_line,                \* position of `for line in lines`
    w_current_passage,     \* parse_diatheke_output: current_passage
    w_current_verse_parts, \* parse_diatheke_output: current_verse_parts
    w_current_verse_info,  \* parse_diatheke_output: current_verse_info
    w_passages,            \* parse_diatheke_output: passages
    w_formatted_passages,  \* main: formatted_passages
    w_stdout,              \* what main printed
    w_pc,                  \* where the run is
    w_exit                 \* the status main returned

\* bible-to-format_v2.py
VARIABLES
    f_args,                \* main: args, the options of the command line
    f_html_content,        \* main: html_content, the text read from stdin
    f_module,              \* main: module
    f_verses_raw,          \* main: verses_raw
    f_passages,            \* main: passages
    f_passage,             \* position of `for book, chapter, verses in passages`
    f_outputs,             \* main: outputs
    f_combined_refs,       \* main: combined_refs
    f_stdout,              \* what main printed on stdout
    f_stderr,              \* what main printed on stderr
    f_pc                   \* where the run is

\* bible-format-wrapper.py, render_w_tags on its own
VARIABLES
    rw_src,                \* render_w_tags: src
    rw_options,            \* render_w_tags: options
    rw_out,                \* what render_w_tags returned
    rw_pc                  \* where the call is

wrapVars == <<w_args, w_output, w_lines, w_line, w_current_passage,
              w_current_verse_parts, w_current_verse_info, w_passages,
              w_formatted_passages, w_stdout, w_pc, w_exit>>
fmtVars == <<f_args, f_html_content, f_module, f_verses_raw, f_passages,
             f_passage, f_outputs, f_combined_refs, f_stdout, f_stderr, f_pc>>
mainVars == <<references, include_apocrypha, idx, pc, exit_code, expanded_refs,
              english_refs, calls, stderr>>
\* the variables of main a call of expand_reference_shorthand leaves alone
mainRest == <<references, include_apocrypha, idx, exit_code, expanded_refs,
              english_refs, calls, stderr>>
expandVars == <<semicolon_parts, si, comma_parts, ci, last_book, last_chapter,
                result>>
normVars == <<nx, ny, nz, npc>>
tagVars == <<rw_src, rw_options, rw_out, rw_pc>>
vars == <<mainVars, expandVars, parsed, normVars, tagVars, wrapVars, fmtVars>>

NoParse == [tokens |-> <<>>, i |-> 0, book_part |-> <<>>, rest_part |-> <<>>]

\* no call of expand_reference_shorthand is active
NoExpandFrame ==
    /\ semicolon_parts' = <<>>
    /\ si' = 0
    /\ comma_parts' = <<>>
    /\ ci' = 0
    /\ last_book' = None
    /\ last_chapter' = None
    /\ result' = <<>>

NormIdle == nx = <<>> /\ ny = <<>> /\ nz = <<>> /\ npc = "idle"

\* no call of render_w_tags on its own
TagIdle == rw_src = <<>> /\ rw_options = <<>> /\ rw_out = <<>> /\ rw_pc = "idle"

\* bible-format-wrapper.py is not running
WrapIdle ==
    /\ w_args = <<>>
    /\ w_output = <<>>
    /\ w_lines = <<>>
    /\ w_line = 0
    /\ w_current_passage = <<>>
    /\ w_current_verse_parts = <<>>
    /\ w_current_verse_info = <<>>
    /\ w_passages = <<>>
    /\ w_formatted_passages = <<>>
    /\ w_stdout = <<>>
    /\ w_pc = "idle"
    /\ w_exit = <<>>

\* bible-to-format_v2.py is not running
FmtIdle ==
    /\ f_args = <<>>
    /\ f_html_content = <<>>
    /\ f_module = <<>>
    /\ f_verses_raw = <<>>
    /\ f_passages = <<>>
    /\ f_passage = 0
    /\ f_outputs = <<>>
    /\ f_combined_refs = <<>>
    /\ f_stdout = <<>>
    /\ f_stderr = <<>>
    /\ f_pc = "idle"

InitMain(refs, apocrypha) ==
    /\ references = refs
    /\ include_apocrypha = apocrypha
    /\ idx = 1
    /\ pc = "loop"
    /\ exit_code = 0
    /\ expanded_refs = <<>>
    /\ english_refs = <<>>
    /\ calls = <<>>
    /\ stderr = <<>>
    /\ semicolon_parts = <<>>
    /\ si = 0
    /\ comma_parts = <<>>
    /\ ci = 0
    /\ last_book = None
    /\ last_chapter = None
    /\ result = <<>>
    /\ parsed = NoParse

ArgumentRefs == (UNION {Generated(n) : n \in 1..MaxFrags}) \cup DocRefs \cup SampleRefs

Init ==
    /\ NormIdle
    /\ TagIdle
    /\ WrapIdle
    /\ FmtIdle
    /\ \/ \E r \in ArgumentRefs, a \in BOOLEAN : InitMain(FromArguments(<<r>>), a)
       \/ \E lines \in SeqsUpTo(StdinLines, MaxRefs), a \in BOOLEAN :
             InitMain(FromStdin(lines), a)

(***************************************************************************)
(* main, lines 402-429, and the functions it calls.                        *)
(***************************************************************************)
\* the reference and the fragment at hand
ref == references[idx]
comma_part == comma_parts[ci]
InFragment == pc = "comma" /\ ci <= Len(comma_parts)

\* lines 422-424: except ValueError: the error is printed, exit_code = 1, and
\* the loop goes on with the next reference
HandleValueError(error, arg) ==
    /\ stderr' = Append(stderr, [ref |-> idx, error |-> error, arg |-> arg])
    /\ exit_code' = ErrorExit
    /\ idx' = idx + 1
    /\ pc' = "loop"
    /\ NoExpandFrame
    /\ UNCHANGED <<references, include_apocrypha, expanded_refs, english_refs,
                   calls, normVars, tagVars, wrapVars, fmtVars>>

\* lines 402-404: no references: the help is printed
NoReferences ==
    /\ pc = "loop"
    /\ references = <<>>
    /\ pc' = "done"
    /\ exit_code' = HelpExit
    /\ UNCHANGED <<references, include_apocrypha, idx, expanded_refs,
                   english_refs, calls, stderr, expandVars, parsed, normVars, tagVars, wrapVars, fmtVars>>

\* lines 407-410 and 201-202: a blank reference expands to []
ExpandBlank ==
    /\ pc = "loop"
    /\ idx <= Len(references)
    /\ Strip(ref) = <<>>
    /\ expanded_refs' = <<>>
    /\ english_refs' = <<>>
    /\ pc' = "convert"
    /\ parsed' = NoParse
    /\ UNCHANGED <<references, include_apocrypha, idx, exit_code, calls, stderr,
                   expandVars, normVars, tagVars, wrapVars, fmtVars>>

\* a call that starts with the book the reference before it ended with
ExpandBegin_Remembers ==
    /\ pc = "loop"
    /\ idx <= Len(references)
    /\ Strip(ref) # <<>>
    /\ semicolon_parts' = NonBlankParts(ref, ";")
    /\ si' = 1
    /\ comma_parts' = <<>>
    /\ ci' = 0
    /\ last_book' = IF expanded_refs # <<>>
                    THEN SplitWS(expanded_refs[Len(expanded_refs)])[1]
                    ELSE None
    /\ last_chapter' = None
    /\ result' = <<>>
    /\ pc' = "semi"
    /\ parsed' = NoParse
    /\ UNCHANGED <<mainRest, normVars, tagVars, wrapVars, fmtVars>>

\* lines 407-410 and 204-210: the call of expand_reference_shorthand
ExpandBegin ==
    /\ pc = "loop"
    /\ idx <= Len(references)
    /\ Strip(ref) # <<>>
    /\ semicolon_parts' = NonBlankParts(ref, ";")
    /\ si' = 1
    /\ comma_parts' = <<>>
    /\ ci' = 0
    /\ last_book' = None
    /\ last_chapter' = None
    /\ result' = <<>>
    /\ pc' = "semi"
    /\ parsed' = NoParse
    /\ UNCHANGED <<mainRest, normVars, tagVars, wrapVars, fmtVars>>

\* lines 212-214: the next semicolon part is split at its commas
NextSemiPart ==
    /\ pc = "semi"
    /\ si <= Len(semicolon_parts)
    /\ comma_parts' = NonBlankParts(semicolon_parts[si], ",")
    /\ ci' = 1
    /\ pc' = "comma"
    /\ UNCHANGED <<mainRest, semicolon_parts, si, last_book, last_chapter,
                   result, parsed, normVars, tagVars, wrapVars, fmtVars>>

\* the fragment has a book of its own: BookPrefixLen found an alias
HasOwnBook == BookPrefixLen(comma_part, Mapping(include_apocrypha)) > 0

\* lines 231-244: a fragment with a book of its own is emitted as it is
BookFragment ==
    /\ InFragment
    /\ HasOwnBook
    /\ LET i == BookPrefixLen(comma_part, Mapping(include_apocrypha))
       IN  /\ result' = Append(result, comma_part)
           /\ last_book' = BookText(comma_part, i)
           /\ last_chapter' = ChapterAfterBook(comma_part, i, last_chapter)
    /\ ci' = ci + 1
    /\ UNCHANGED <<mainRest, pc, semicolon_parts, si, comma_parts, parsed, normVars, tagVars, wrapVars, fmtVars>>

\* lines 247-251: chapter:verse without a book takes the last book
ChapterVerseFragment ==
    /\ InFragment
    /\ ~HasOwnBook
    /\ Contains(comma_part, ":")
    /\ HasBookContext(last_book)
    /\ result' = Append(result, WithBook(last_book, comma_part))
    /\ last_chapter' = BeforeColon(comma_part)
    /\ ci' = ci + 1
    /\ UNCHANGED <<mainRest, pc, semicolon_parts, si, comma_parts, last_book,
                   parsed, normVars, tagVars, wrapVars, fmtVars>>

\* lines 252-253: chapter:verse without a book and no last book
MissingBookContext ==
    /\ InFragment
    /\ ~HasOwnBook
    /\ Contains(comma_part, ":")
    /\ ~HasBookContext(last_book)
    /\ HandleValueError("MissingBookContext", comma_part)
    /\ UNCHANGED parsed

\* lines 255-261: a number after a chapter is a verse of that chapter
VerseFragment ==
    /\ InFragment
    /\ ~HasOwnBook
    /\ ~Contains(comma_part, ":")
    /\ IsVerseNumber(comma_part)
    /\ HasChapterContext(last_book, last_chapter)
    /\ result' = Append(result, WithBookAndChapter(last_book, last_chapter, comma_part))
    /\ ci' = ci + 1
    /\ UNCHANGED <<mainRest, pc, semicolon_parts, si, comma_parts, last_book,
                   last_chapter, parsed, normVars, tagVars, wrapVars, fmtVars>>

\* lines 262-265: a number with a book and no chapter is a chapter
ChapterFragment ==
    /\ InFragment
    /\ ~HasOwnBook
    /\ ~Contains(comma_part, ":")
    /\ IsVerseNumber(comma_part)
    /\ ~HasChapterContext(last_book, last_chapter)
    /\ HasBookContext(last_book)
    /\ result' = Append(result, WithBook(last_book, comma_part))
    /\ last_chapter' = comma_part
    /\ ci' = ci + 1
    /\ UNCHANGED <<mainRest, pc, semicolon_parts, si, comma_parts, last_book,
                   parsed, normVars, tagVars, wrapVars, fmtVars>>

\* lines 266-267: a number with no book
MissingBookOrChapterContext ==
    /\ InFragment
    /\ ~HasOwnBook
    /\ ~Contains(comma_part, ":")
    /\ IsVerseNumber(comma_part)
    /\ ~HasChapterContext(last_book, last_chapter)
    /\ ~HasBookContext(last_book)
    /\ HandleValueError("MissingBookOrChapterContext", comma_part)
    /\ UNCHANGED parsed

\* lines 269-271: anything else is emitted as it is
VerbatimFragment ==
    /\ InFragment
    /\ ~HasOwnBook
    /\ ~Contains(comma_part, ":")
    /\ ~IsVerseNumber(comma_part)
    /\ result' = Append(result, comma_part)
    /\ ci' = ci + 1
    /\ UNCHANGED <<mainRest, pc, semicolon_parts, si, comma_parts, last_book,
                   last_chapter, parsed, normVars, tagVars, wrapVars, fmtVars>>

\* lines 273-275: the end of a semicolon part forgets the chapter
EndSemiPart ==
    /\ pc = "comma"
    /\ ci > Len(comma_parts)
    /\ last_chapter' = ChapterAfterSemiPart(last_chapter)
    /\ last_book' = BookAfterSemiPart(last_book)
    /\ si' = si + 1
    /\ pc' = "semi"
    /\ UNCHANGED <<mainRest, semicolon_parts, comma_parts, ci, result, parsed,
                   normVars, tagVars, wrapVars, fmtVars>>

\* lines 277 and 410-413: expand_reference_shorthand returns result
ExpandReturn ==
    /\ pc = "semi"
    /\ si > Len(semicolon_parts)
    /\ expanded_refs' = result
    /\ english_refs' = <<>>
    /\ pc' = "convert"
    /\ NoExpandFrame
    /\ UNCHANGED <<references, include_apocrypha, idx, exit_code, calls, stderr,
                   parsed, normVars, tagVars, wrapVars, fmtVars>>

\* the fragment parse_reference is called with next
expanded_ref == expanded_refs[Len(english_refs) + 1]
Converting == pc = "convert" /\ Len(english_refs) < Len(expanded_refs)

\* the locals of a parse_reference call
Frame(r) == [tokens |-> r.tokens, i |-> r.found.i,
             book_part |-> r.found.book_part, rest_part |-> r.found.rest_part]

\* lines 414-416: parse_reference returns the canonical reference
ConvertFragment ==
    /\ Converting
    /\ LET r == parse_reference(expanded_ref, include_apocrypha)
       IN  /\ r.ok
           /\ english_refs' = Append(english_refs, r.value)
           /\ parsed' = Frame(r)
    /\ UNCHANGED <<references, include_apocrypha, idx, pc, exit_code,
                   expanded_refs, calls, stderr, expandVars, normVars, tagVars, wrapVars, fmtVars>>

\* lines 415 and 422-424: parse_reference raises ValueError
ConvertFail ==
    /\ Converting
    /\ LET r == parse_reference(expanded_ref, include_apocrypha)
       IN  /\ ~r.ok
           /\ HandleValueError(r.error, r.value)
           /\ parsed' = Frame(r)

\* lines 419-421: the compound key goes to diatheke
RunDiatheke ==
    /\ pc = "convert"
    /\ Len(english_refs) = Len(expanded_refs)
    /\ calls' = Append(calls, [ref |-> idx, key |-> CombinedReference(english_refs)])
    /\ \E rc \in ReturnCodes : exit_code' = MaxExit(exit_code, rc)
    /\ idx' = idx + 1
    /\ pc' = "loop"
    /\ UNCHANGED <<references, include_apocrypha, expanded_refs, english_refs,
                   stderr, expandVars, parsed, normVars, tagVars, wrapVars, fmtVars>>

\* lines 425-427: KeyboardInterrupt inside the try block
Interrupt ==
    /\ pc \in {"semi", "comma", "convert"}
    /\ pc' = "interrupted"
    /\ exit_code' = InterruptExit
    /\ expanded_refs' = <<>>
    /\ english_refs' = <<>>
    /\ parsed' = NoParse
    /\ NoExpandFrame
    /\ UNCHANGED <<references, include_apocrypha, idx, calls, stderr, normVars, tagVars, wrapVars, fmtVars>>

\* line 429: return exit_code
Finish ==
    /\ pc = "loop"
    /\ references # <<>>
    /\ idx > Len(references)
    /\ pc' = "done"
    /\ expanded_refs' = <<>>
    /\ english_refs' = <<>>
    /\ parsed' = NoParse
    /\ UNCHANGED <<references, include_apocrypha, idx, exit_code, calls, stderr,
                   expandVars, normVars, tagVars, wrapVars, fmtVars>>

Next ==
    \/ NoReferences
    \/ ExpandBlank
    \/ ExpandBegin
    \/ NextSemiPart
    \/ BookFragment
    \/ ChapterVerseFragment
    \/ MissingBookContext
    \/ VerseFragment
    \/ ChapterFragment
    \/ MissingBookOrChapterContext
    \/ VerbatimFragment
    \/ EndSemiPart
    \/ ExpandReturn
    \/ ConvertFragment
    \/ ConvertFail
    \/ RunDiatheke
    \/ Interrupt
    \/ Finish

Spec == Init /\ [][Next]_vars

(***************************************************************************)
(* normalize_text on its own.                                              *)
(***************************************************************************)
NormAlphabet == {"i", "v", "k", "I", "1", " ", ".", ":", "-", "u-uml"}

\* longer texts: a book name in three spellings (the precomposed and the
\* decomposed u with diaeresis), a numbered book, a reference with a full stop
\* and one with brackets
NormSamples ==
    { <<"M", "a", "t", "t", "h", "e", "u-uml", "s">>,
      <<"M", "a", "t", "t", "h", "e", "u", "U+0308", "s">>,
      <<"M", "A", "T", "T", "H", "E", "U", "S">>,
      <<"m", "a", "t", "t", "h", "e", "u", "s">>,
      <<"1", "k", "o", "r">>,
      <<"1", " ", "K", "o", "r">>,
      <<"G", "e", "n", ".", " ", "1", ":", "1">>,
      <<"G", "e", "n", " ", "1", ":", "1">>,
      <<"(", "a", ")", " ", "[", "b", "]", " ", "{", "c", "}">> }

InitNorm ==
    /\ InitMain(<<>>, FALSE)
    /\ TagIdle
    /\ WrapIdle
    /\ FmtIdle
    /\ nx \in SeqsUpTo(NormAlphabet, MaxNormLen) \cup NormSamples
    /\ ny = <<>>
    /\ nz = <<>>
    /\ npc = "input"

\* key = normalize_text(x)
NormalizeOnce ==
    /\ npc = "input"
    /\ ny' = normalize_text(nx)
    /\ npc' = "once"
    /\ UNCHANGED <<mainVars, expandVars, parsed, nx, nz, tagVars, wrapVars, fmtVars>>

\* normalize_text(key)
NormalizeTwice ==
    /\ npc = "once"
    /\ nz' = normalize_text(ny)
    /\ npc' = "twice"
    /\ UNCHANGED <<mainVars, expandVars, parsed, nx, ny, tagVars, wrapVars, fmtVars>>

NextNorm == NormalizeOnce \/ NormalizeTwice

SpecNorm == InitNorm /\ [][NextNorm]_vars

(***************************************************************************)
(* Marked-up text.  A text is a sequence of tokens: a token is one         *)
(* character or one whole tag, so the texts of the model hold '<' and '>'  *)
(* only as the two ends of a tag.                                          *)
(***************************************************************************)
LineStart == "<l sID=\"1\"/>"
LineEnd == "<l eID=\"1\"/>"
NoteClose == "</note>"
\* the tags <note[^>]*/> matches
NoteSelfClosing == {"<note type=\"x\"/>"}
\* the tags with content that <note([^>]*)> matches
NoteOpen == {"<note>", "<note n=\"a\">", "<note type=\"crossReference\">"}
\* <note[^>]*> matches both kinds ('/' is no '>')
NoteOpenLike == NoteOpen \cup NoteSelfClosing
HiSmallCaps == "<hi type=\"small-caps\">"
HiSuper == "<hi type=\"super\">"
HiClose == "</hi>"
ItalicOpen == "<i>"
ItalicClose == "</i>"
ChapterTags == {"<chapter osisID=\"Gen.1\"/>"}
DivTags == {"<div/>"}
Milestones == {"<milestone type=\"line\"/>"}
SpanOpen == {"<span class=\"verse\">"}
SpanClose == "</span>"
BreakTags == {"<br />", "<br/>"}
BodyClose == "</body>"
WClose == "</w>"
\* <w ...> tags: what the three findall patterns of render_w_tags give on
\* the attributes of each
WTable ==
    [ t \in {"<w lemma=\"strong:H1\">",
             "<w morph=\"morph:N\" lemma=\"strong:G2 strong:G3\">",
             "<w morph=\"morph:V\" lemma=\"lemma.TR:x strong:G4\">",
             "<w>"} |->
        CASE t = "<w lemma=\"strong:H1\">" ->
                 [strongs |-> << <<"H", "1">> >>, lemmas |-> <<>>, morphs |-> <<>>]
          [] t = "<w morph=\"morph:N\" lemma=\"strong:G2 strong:G3\">" ->
                 [strongs |-> << <<"G", "2">>, <<"G", "3">> >>, lemmas |-> <<>>,
                  morphs |-> << <<"N">> >>]
          [] t = "<w morph=\"morph:V\" lemma=\"lemma.TR:x strong:G4\">" ->
                 [strongs |-> << <<"G", "4">> >>, lemmas |-> << <<"x">> >>,
                  morphs |-> << <<"V">> >>]
          [] OTHER -> [strongs |-> <<>>, lemmas |-> <<>>, morphs |-> <<>>] ]
WOpen == DOMAIN WTable

\* every token <[^>]+> matches
Tags ==
    {LineStart, LineEnd, NoteClose, HiSmallCaps, HiSuper, HiClose, ItalicOpen,
     ItalicClose, SpanClose, BodyClose, WClose}
    \cup NoteOpenLike \cup ChapterTags \cup DivTags \cup Milestones \cup SpanOpen
    \cup BreakTags \cup WOpen

\* the tokens of s outside S: re.sub of a pattern that matches one tag
Without(s, S) == SelectSeq(s, LAMBDA t : t \notin S)

\* \s*: the length of the run of white space of s from position p on
RECURSIVE SpaceRun(_, _)
SpaceRun(s, p) ==
    IF p <= Len(s) /\ s[p] \in WhiteSpace THEN 1 + SpaceRun(s, p + 1) ELSE 0

\* [^<]+ : the length of the run of characters of s from position p on
RECURSIVE TextRun(_, _)
TextRun(s, p) ==
    IF p <= Len(s) /\ s[p] \notin Tags THEN 1 + TextRun(s, p + 1) ELSE 0

\* (.*?)close : the first position from p on that holds close, reached over
\* tokens the dot matches (every token, or every token but the newline);
\* 0 when there is none
RECURSIVE LazyEnd(_, _, _, _)
LazyEnd(s, p, close, dotall) ==
    IF p > Len(s) THEN 0
    ELSE IF s[p] = close THEN p
    ELSE IF s[p] = "\n" /\ ~dotall THEN 0
    ELSE LazyEnd(s, p + 1, close, dotall)

(***************************************************************************)
(* bible-format-wrapper.py: process_verse_text, lines 303-383.             *)
(***************************************************************************)
\* lines 321-334: one kind of annotation, "Kind v1,v2", when it has values
Annotation(wanted, kind, values) ==
    IF wanted /\ values # <<>> THEN <<kind \o Join(values, <<",">>)>> ELSE <<>>

\* lines 316-338: repl, the replacement of one <w ...>content</w>
repl_w(tag, content, options) ==
    LET annotations ==
            Annotation(Contains(options, "n"), <<"S", "t", "r", " ">>,
                       WTable[tag].strongs)
            \o Annotation(Contains(options, "l"),
                          <<"L", "e", "m", "m", "a", " ">>, WTable[tag].lemmas)
            \o Annotation(Contains(options, "m") \/ Contains(options, "M"),
                          <<"M", "o", "r", "p", "h", " ">>, WTable[tag].morphs)
    IN  IF annotations # <<>>
        THEN content \o <<" ", "[">> \o Join(annotations, <<" ", "|", " ">>)
                     \o <<"]">>
        ELSE content

\* line 340: re.sub(r'<w\b([^>]*)>(.*?)</w>', repl, src)
RECURSIVE SubW(_, _, _)
SubW(s, p, options) ==
    IF p > Len(s) THEN <<>>
    ELSE LET q == LazyEnd(s, p + 1, WClose, FALSE)
         IN  IF s[p] \in WOpen /\ q > 0
             THEN repl_w(s[p], SubSeq(s, p + 1, q - 1), options)
                  \o SubW(s, q + 1, options)
             ELSE <<s[p]>> \o SubW(s, p + 1, options)

\* every kind of annotation is rendered, whatever the options
render_w_tags_AllKinds(src, options) == SubW(src, 1, <<"n", "l", "m">>)

\* lines 308-340
render_w_tags(src, options) ==
    IF options = <<>> THEN Without(src, WOpen \cup {WClose})
    ELSE SubW(src, 1, options)

\* line 343: re.sub(r'<note[^>]*/>\s*', '', text)
RECURSIVE DropSelfClosingNotes(_, _)
DropSelfClosingNotes(s, p) ==
    IF p > Len(s) THEN <<>>
    ELSE IF s[p] \in NoteSelfClosing
         THEN DropSelfClosingNotes(s, p + 1 + SpaceRun(s, p + 1))
         ELSE <<s[p]>> \o DropSelfClosingNotes(s, p + 1)

\* line 344: re.sub(r'<note[^>]*></note>\s*', '', text)
RECURSIVE DropEmptyNotes(_, _)
DropEmptyNotes(s, p) ==
    IF p > Len(s) THEN <<>>
    ELSE IF s[p] \in NoteOpenLike /\ p < Len(s) /\ s[p + 1] = NoteClose
         THEN DropEmptyNotes(s, p + 2 + SpaceRun(s, p + 2))
         ELSE <<s[p]>> \o DropEmptyNotes(s, p + 1)

\* re.sub(r'<hi type="...">([^<]+)</hi>', ..., text): each match of open,
\* a run of characters and </hi> becomes before + the run + after, or
\* nothing when the run is not kept
RECURSIVE SubHi(_, _, _, _, _, _)
SubHi(s, p, open, before, after, keep) ==
    IF p > Len(s) THEN <<>>
    ELSE LET n == TextRun(s, p + 1)
         IN  IF /\ s[p] = open
                /\ n >= 1
                /\ p + n + 1 <= Len(s)
                /\ s[p + n + 1] = HiClose
             THEN (IF keep THEN before \o SubSeq(s, p + 1, p + n) \o after
                   ELSE <<>>)
                  \o SubHi(s, p + n + 2, open, before, after, keep)
             ELSE <<s[p]>> \o SubHi(s, p + 1, open, before, after, keep)

\* lines 347-354
SmallCapsAndSuper(text, output_format) ==
    IF ToLower(output_format) = <<"p", "l", "a", "i", "n">>
    THEN SubHi(SubHi(text, 1, HiSmallCaps, <<>>, <<>>, TRUE),
               1, HiSuper, <<>>, <<>>, FALSE)
    ELSE SubHi(text, 1, HiSmallCaps, <<"*">>, <<"*">>, TRUE)

\* line 363: re.sub(r'<note[^>]*>(.*?)</note>', r'[\1]', text)
RECURSIVE BracketNotes(_, _)
BracketNotes(s, p) ==
    IF p > Len(s) THEN <<>>
    ELSE LET q == LazyEnd(s, p + 1, NoteClose, FALSE)
         IN  IF s[p] \in NoteOpenLike /\ q > 0
             THEN <<"[">> \o SubSeq(s, p + 1, q - 1) \o <<"]">>
                  \o BracketNotes(s, q + 1)
             ELSE <<s[p]>> \o BracketNotes(s, p + 1)

\* lines 368 and 268: re.sub(r'<l eID="[^"]*"/>\s*<l sID="[^"]*"/>', '\n', text)
RECURSIVE BreakAtAdjacentMarkers(_, _)
BreakAtAdjacentMarkers(s, p) ==
    IF p > Len(s) THEN <<>>
    ELSE LET q == p + 1 + SpaceRun(s, p + 1)
         IN  IF s[p] = LineEnd /\ q <= Len(s) /\ s[q] = LineStart
             THEN <<"\n">> \o BreakAtAdjacentMarkers(s, q + 1)
             ELSE <<s[p]>> \o BreakAtAdjacentMarkers(s, p + 1)

\* lines 377-383: the stripped non-empty lines, joined again
CleanLines(text) == Join(StripNonBlank(Split(text, "\n")), <<"\n">>)

\* lines 303-383
process_verse_text(text, output_format, options) ==
    IF text = <<>> THEN <<>>
    ELSE LET t1 == DropSelfClosingNotes(text, 1)
             t2 == DropEmptyNotes(t1, 1)
             t3 == SmallCapsAndSuper(t2, output_format)
             t4 == Without(t3, ChapterTags)
             t5 == render_w_tags(t4, options)
             t6 == BracketNotes(t5, 1)
             t7 == BreakAtAdjacentMarkers(t6, 1)
             t8 == Without(t7, {LineStart, LineEnd})
             t9 == Without(t8, Tags)
         IN  CleanLines(t9)

(***************************************************************************)
(* bible-format-wrapper.py: parse_diatheke_output, lines 289-464.  An      *)
(* absent value (None) is the empty sequence and a present value x is <<x>>*)
(***************************************************************************)
\* the largest element of a non-empty set of positions
Greatest(S) == CHOOSE x \in S : \A y \in S : y <= x

\* \d+ : the length of the run of digits of s from position p on
RECURSIVE DigitRun(_, _)
DigitRun(s, p) ==
    IF p <= Len(s) /\ s[p] \in Digits THEN 1 + DigitRun(s, p + 1) ELSE 0

\* (\d+):(\d+): at position p: the position after the second colon, 0 when
\* the pattern does not match there
ChapterVerseAt(s, p) ==
    LET c == DigitRun(s, p)
        v == DigitRun(s, p + c + 1)
    IN  IF /\ c >= 1
           /\ p + c <= Len(s)
           /\ s[p + c] = ":"
           /\ v >= 1
           /\ p + c + 1 + v <= Len(s)
           /\ s[p + c + 1 + v] = ":"
        THEN p + c + v + 2
        ELSE 0

\* line 441: the places where (.+)\s+ can end: a blank that follows at least
\* one character and is followed by chapter:verse:
VerseStartSplits(line) ==
    {m \in 2..Len(line) : line[m] \in WhiteSpace /\ ChapterVerseAt(line, m + 1) > 0}

\* line 442: if match
IsVerseStart(line) == VerseStartSplits(line) # {}

\* lines 446-447: match.groups(), text stripped; the greedy (.+) takes the
\* last place
VerseStartGroups(line) ==
    LET m == Greatest(VerseStartSplits(line))
        c == DigitRun(line, m + 1)
        v == DigitRun(line, m + c + 2)
    IN  [book |-> SubSeq(line, 1, m - 1),
         chapter |-> SubSeq(line, m + 1, m + c),
         verse |-> SubSeq(line, m + c + 2, m + c + 1 + v),
         text |-> Strip(SubSeq(line, m + c + v + 3, Len(line)))]

\* line 428: line == f"({module})"
IsSentinel(line, module) == line = <<"(">> \o module \o <<")">>

\* lines 392-396: the parts that are not empty after process_verse_text
RECURSIVE ProcessedParts(_, _, _)
ProcessedParts(parts, output_format, options) ==
    IF parts = <<>> THEN <<>>
    ELSE LET processed_part == process_verse_text(Head(parts), output_format, options)
         IN  (IF processed_part # <<>> THEN <<processed_part>> ELSE <<>>)
             \o ProcessedParts(Tail(parts), output_format, options)

\* lines 398-402
FormattedText(processed_parts) ==
    IF \E i \in DOMAIN processed_parts : Contains(processed_parts[i], "\n")
    THEN Join(processed_parts, <<"\n">>)
    ELSE Join(processed_parts, <<" ">>)

\* finalize_current_verse that forgets the passage at hand when a new one
\* starts
finalize_current_verse_Forgets(current_passage, passages, parts, info, output_format, options) ==
    IF info = <<>> \/ parts = <<>>
    THEN [current_passage |-> current_passage, passages |-> passages]
    ELSE LET formatted_text ==
                 FormattedText(ProcessedParts(parts, output_format, options))
             new == \/ current_passage = <<>>
                    \/ current_passage[1].book # info[1].book
                    \/ current_passage[1].chapter # info[1].chapter
             passage == IF new
                        THEN [book |-> info[1].book, chapter |-> info[1].chapter,
                              first_verse |-> info[1].verse,
                              last_verse |-> info[1].verse, verse_lines |-> <<>>]
                        ELSE current_passage[1]
         IN  IF formatted_text = <<>>
             THEN [current_passage |-> current_passage, passages |-> passages]
             ELSE [current_passage |->
                       <<[passage EXCEPT
                            !.verse_lines = Append(@, <<info[1].verse, formatted_text>>),
                            !.last_verse = info[1].verse]>>,
                   passages |-> passages]

\* lines 385-423: finalize_current_verse, as the values it leaves in
\* current_passage and passages (it always resets the verse at hand)
finalize_current_verse(current_passage, passages, parts, info, output_format, options) ==
    LET same == [current_passage |-> current_passage, passages |-> passages]
    IN  IF info = <<>> \/ parts = <<>> THEN same
        ELSE
          LET formatted_text ==
                  FormattedText(ProcessedParts(parts, output_format, options))
              verse_num == info[1].verse
              book == info[1].book
              chapter == info[1].chapter
              new == \/ current_passage = <<>>
                     \/ current_passage[1].book # book
                     \/ current_passage[1].chapter # chapter
              passage == IF new
                         THEN [book |-> book, chapter |-> chapter,
                               first_verse |-> verse_num, last_verse |-> verse_num,
                               verse_lines |-> <<>>]
                         ELSE current_passage[1]
          IN  IF formatted_text = <<>> THEN same
              ELSE [current_passage |->
                        <<[passage EXCEPT
                             !.verse_lines = Append(@, <<verse_num, formatted_text>>),
                             !.last_verse = verse_num]>>,
                    passages |-> IF new THEN passages \o current_passage
                                 ELSE passages]

(***************************************************************************)
(* bible-format-wrapper.py: the configurations and format_passage.         *)
(***************************************************************************)
DutSVV == <<"D", "u", "t", "S", "V", "V">>
ESV == <<"E", "S", "V">>

\* lines 44-225: BIBLE_CONFIGS, two of its modules and two of their books;
\* dutch_names is absent (None) for ESV
BIBLE_CONFIGS ==
    [m \in {DutSVV, ESV} |->
        IF m = DutSVV
        THEN [tag |-> <<"S", "V">>,
              dutch_names |-> << { <<Exodus, <<"E", "x", "o", "d", "u", "s">> >>,
                                   <<Psalms, <<"P", "s", "a", "l", "m", "e", "n">> >> } >>,
              abbreviations |-> { <<Exodus, <<"E", "x", ".">> >>,
                                  <<Psalms, <<"P", "s", ".">> >> }]
        ELSE [tag |-> <<"E", "S", "V">>,
              dutch_names |-> <<>>,
              abbreviations |-> { <<Exodus, <<"E", "x", ".">> >>,
                                  <<Psalms, <<"P", "s", ".">> >> }]]

\* lines 265-268: get_config for a module of BIBLE_CONFIGS
get_config(module) == BIBLE_CONFIGS[module]

\* dict.get(key, default), the dict a set of <<key, value>>
DictGet(dict, key, default) ==
    IF \E e \in dict : e[1] = key
    THEN (CHOOSE e \in dict : e[1] = key)[2]
    ELSE default

\* lines 280-287; an empty dict is falsy
convert_book_name(book, config, use_dutch_names) ==
    IF use_dutch_names /\ config.dutch_names # <<>> /\ config.dutch_names[1] # {}
    THEN DictGet(config.dutch_names[1], book, book)
    ELSE DictGet(config.abbreviations, book, book)

\* int(s) for a string of digits
RECURSIVE ToInt(_)
ToInt(s) ==
    IF s = <<>> THEN 0
    ELSE 10 * ToInt(SubSeq(s, 1, Len(s) - 1))
         + (CHOOSE d \in 0..9 : DigitSeq[d + 1] = s[Len(s)])

\* the last verse is as far from the first as the passage is long
is_consecutive_Ends(verse_nums) ==
    verse_nums[1] + Len(verse_nums) - 1 = verse_nums[Len(verse_nums)]

\* line 512: all(verse_nums[i] + 1 == verse_nums[i + 1] for i in range(len - 1))
is_consecutive(verse_nums) ==
    \A i \in 1..(Len(verse_nums) - 1) : verse_nums[i] + 1 = verse_nums[i + 1]

\* lines 476-480: the verses, numbered when the passage has several
VerseOutputLines(verse_lines, show_verse_numbers) ==
    [i \in DOMAIN verse_lines |->
        IF show_verse_numbers
        THEN verse_lines[i][1] \o <<".", " ">> \o verse_lines[i][2]
        ELSE verse_lines[i][2]]

\* lines 485-505: the book name and the version tag of a reference style
StyledBookName(book, config, reference_style) ==
    LET use_dutch_names == config.dutch_names # <<>>
    IN  IF reference_style \in {"abbreviated-with-version", "abbreviated-no-version"}
        THEN convert_book_name(book, config, FALSE)
        ELSE convert_book_name(book, config, use_dutch_names)

StyledVersionTag(config, reference_style) ==
    IF reference_style \in {"full-no-version", "abbreviated-no-version"}
    THEN <<>>
    ELSE <<" ">> \o config.tag

\* lines 507-520: the reference in parentheses
PassageReference(book_name, chapter, first_verse, last_verse, verse_lines, version_tag) ==
    LET verse_nums == [i \in DOMAIN verse_lines |-> ToInt(verse_lines[i][1])]
        verse_list == Join([i \in DOMAIN verse_lines |-> verse_lines[i][1]], <<",">>)
        verses == IF first_verse = last_verse THEN first_verse
                  ELSE IF is_consecutive(verse_nums)
                       THEN first_verse \o <<"-">> \o last_verse
                       ELSE verse_list
    IN  <<"(">> \o book_name \o <<" ">> \o chapter \o <<":">> \o verses
        \o version_tag \o <<")">>

\* lines 466-524
format_passage(book, chapter, first_verse, last_verse, verse_lines, config, reference_style) ==
    LET show_verse_numbers == first_verse # last_verse
        output_lines == VerseOutputLines(verse_lines, show_verse_numbers)
        book_name == StyledBookName(book, config, reference_style)
        version_tag == StyledVersionTag(config, reference_style)
        reference == PassageReference(book_name, chapter, first_verse, last_verse,
                                      verse_lines, version_tag)
    IN  Join(Append(output_lines, reference), <<"\n">>)

(***************************************************************************)
(* bible-format-wrapper.py: main from line 607 on, after the two lookups   *)
(* succeeded, and the loop of parse_diatheke_output.                       *)
(***************************************************************************)
MaxLines == 3

plain == <<"p", "l", "a", "i", "n">>

\* a line as diatheke prints a verse: "<book> <chapter>:<verse>: <text>"
VerseLine(book, chapter, verse, text) ==
    book \o <<" ">> \o chapter \o <<":">> \o verse \o <<":", " ">> \o text

\* f"({module})"
SentinelLine(module) == <<"(">> \o module \o <<")">>

\* the lines a payload is made of: verses of one chapter (one of two lines,
\* one that holds an empty note only), a verse of another book that ends
\* with an end-of-line marker, continuation lines, a blank line and the
\* sentinel of ESV
PayloadLines ==
    { VerseLine(Psalms, <<"1">>, <<"9">>, <<"a">>),
      VerseLine(Psalms, <<"1">>, <<"1", "0">>, <<"b", LineEnd, " ", LineStart, "c">>),
      VerseLine(Psalms, <<"1">>, <<"1", "1">>, <<"d">>),
      VerseLine(Psalms, <<"1">>, <<"1", "2">>, <<"<note type=\"x\"/>">>),
      VerseLine(Exodus, <<"2">>, <<"1">>, <<"e", LineEnd>>),
      <<LineStart, "f">>,
      <<"g">>,
      <<>>,
      SentinelLine(ESV) }

\* the text of some lines, each ended by a newline
RECURSIVE Unlines(_)
Unlines(lines) ==
    IF lines = <<>> THEN <<>>
    ELSE Head(lines) \o <<"\n">> \o Unlines(Tail(lines))

Payloads == {Unlines(lines) : lines \in SeqsUpTo(PayloadLines, MaxLines)}

\* a payload of two passages with the sentinel of the module
SamplePayload(module) ==
    Unlines(<< VerseLine(Psalms, <<"1">>, <<"9">>, <<"a">>),
               VerseLine(Psalms, <<"1">>, <<"1", "1">>, <<"d">>),
               VerseLine(Exodus, <<"2">>, <<"1">>, <<"e", LineEnd>>),
               SentinelLine(module) >>)

\* line 535-543: the defaults of the command line, for ESV
DefaultArgs ==
    [module |-> ESV, format |-> plain, reference_style |-> "full-with-version",
     options |-> <<>>, raw |-> FALSE]

SampleArgs ==
    [module : {DutSVV, ESV},
     format : {plain, <<"P", "l", "a", "i", "n">>, <<"O", "S", "I", "S">>},
     reference_style : {"full-with-version", "full-no-version",
                        "abbreviated-with-version", "abbreviated-no-version"},
     options : {<<>>},
     raw : BOOLEAN]

InitWrap ==
    /\ InitMain(<<>>, FALSE)
    /\ NormIdle
    /\ TagIdle
    /\ FmtIdle
    /\ \/ w_args = DefaultArgs /\ w_output \in Payloads
       \/ w_args \in SampleArgs /\ w_output = SamplePayload(w_args.module)
    /\ w_lines = <<>>
    /\ w_line = 0
    /\ w_current_passage = <<>>
    /\ w_current_verse_parts = <<>>
    /\ w_current_verse_info = <<>>
    /\ w_passages = <<>>
    /\ w_formatted_passages = <<>>
    /\ w_stdout = <<>>
    /\ w_pc = "main"
    /\ w_exit = <<>>

wrapIdle == <<mainVars, expandVars, parsed, normVars, tagVars, fmtVars>>

\* lines 609-611 and 625-629: the output is passed through
PassThrough ==
    /\ w_pc = "main"
    /\ w_args.raw \/ ToLower(w_args.format) # plain
    /\ w_stdout' = <<w_output>>
    /\ w_exit' = <<0>>
    /\ w_pc' = "done"
    /\ UNCHANGED <<w_args, w_output, w_lines, w_line, w_current_passage,
                   w_current_verse_parts, w_current_verse_info, w_passages,
                   w_formatted_passages, wrapIdle>>

\* lines 612-614 and 295-301: parse_diatheke_output is called
ParseBegin ==
    /\ w_pc = "main"
    /\ ~w_args.raw
    /\ ToLower(w_args.format) = plain
    /\ w_lines' = Split(Strip(w_output), "\n")
    /\ w_line' = 1
    /\ w_passages' = <<>>
    /\ w_current_passage' = <<>>
    /\ w_current_verse_parts' = <<>>
    /\ w_current_verse_info' = <<>>
    /\ w_pc' = "lines"
    /\ UNCHANGED <<w_args, w_output, w_formatted_passages, w_stdout, w_exit, wrapIdle>>

\* line 426: line = line.strip()
w_stripped == Strip(w_lines[w_line])
AtLine == w_pc = "lines" /\ w_line <= Len(w_lines)

\* finalize_current_verse() on the state of the loop
Finalized ==
    finalize_current_verse(w_current_passage, w_passages, w_current_verse_parts,
                           w_current_verse_info, w_args.format, w_args.options)

\* lines 428-434: the end marker
AtSentinel ==
    /\ AtLine
    /\ IsSentinel(w_stripped, w_args.module)
    /\ w_passages' = Finalized.passages \o Finalized.current_passage
    /\ w_current_passage' = <<>>
    /\ w_current_verse_parts' = <<>>
    /\ w_current_verse_info' = <<>>
    /\ w_line' = w_line + 1
    /\ UNCHANGED <<w_args, w_output, w_lines, w_formatted_passages, w_stdout,
                   w_pc, w_exit, wrapIdle>>

\* lines 436-438: an empty line
AtBlankLine ==
    /\ AtLine
    /\ ~IsSentinel(w_stripped, w_args.module)
    /\ w_stripped = <<>>
    /\ w_line' = w_line + 1
    /\ UNCHANGED <<w_args, w_output, w_lines, w_current_passage,
                   w_current_verse_parts, w_current_verse_info, w_passages,
                   w_formatted_passages, w_stdout, w_pc, w_exit, wrapIdle>>

\* lines 441-451: a new verse
AtVerseStart ==
    /\ AtLine
    /\ ~IsSentinel(w_stripped, w_args.module)
    /\ w_stripped # <<>>
    /\ IsVerseStart(w_stripped)
    /\ LET g == VerseStartGroups(w_stripped)
       IN  /\ w_current_verse_info' =
                  <<[verse |-> g.verse, book |-> g.book, chapter |-> g.chapter]>>
           /\ w_current_verse_parts' = IF g.text # <<>> THEN <<g.text>> ELSE <<>>
    /\ w_passages' = Finalized.passages
    /\ w_current_passage' = Finalized.current_passage
    /\ w_line' = w_line + 1
    /\ UNCHANGED <<w_args, w_output, w_lines, w_formatted_passages, w_stdout,
                   w_pc, w_exit, wrapIdle>>

\* lines 452-457: continuation text for the current verse
AtContinuation ==
    /\ AtLine
    /\ ~IsSentinel(w_stripped, w_args.module)
    /\ w_stripped # <<>>
    /\ ~IsVerseStart(w_stripped)
    /\ w_current_verse_info # <<>>
    /\ w_current_verse_parts' = Append(w_current_verse_parts, w_stripped)
    /\ w_line' = w_line + 1
    /\ UNCHANGED <<w_args, w_output, w_lines, w_current_passage,
                   w_current_verse_info, w_passages, w_formatted_passages,
                   w_stdout, w_pc, w_exit, wrapIdle>>

\* line 454: text with no verse at hand is dropped
AtStrayLine ==
    /\ AtLine
    /\ ~IsSentinel(w_stripped, w_args.module)
    /\ w_stripped # <<>>
    /\ ~IsVerseStart(w_stripped)
    /\ w_current_verse_info = <<>>
    /\ w_line' = w_line + 1
    /\ UNCHANGED <<w_args, w_output, w_lines, w_current_passage,
                   w_current_verse_parts, w_current_verse_info, w_passages,
                   w_formatted_passages, w_stdout, w_pc, w_exit, wrapIdle>>

\* lines 459-464: the remaining verse and passage, and the return
ReturnPassages ==
    /\ w_pc = "lines"
    /\ w_line > Len(w_lines)
    /\ w_passages' = Finalized.passages \o Finalized.current_passage
    /\ w_current_passage' = Finalized.current_passage
    /\ w_current_verse_parts' = <<>>
    /\ w_current_verse_info' = <<>>
    /\ w_formatted_passages' = <<>>
    /\ w_pc' = "format"
    /\ UNCHANGED <<w_args, w_output, w_lines, w_line, w_stdout, w_exit, wrapIdle>>

\* lines 618-621: one passage is formatted
FormatPassage ==
    /\ w_pc = "format"
    /\ Len(w_formatted_passages) < Len(w_passages)
    /\ LET p == w_passages[Len(w_formatted_passages) + 1]
           formatted == format_passage(p.book, p.chapter, p.first_verse,
                                       p.last_verse, p.verse_lines,
                                       get_config(w_args.module),
                                       w_args.reference_style)
       IN  w_formatted_passages' = Append(w_formatted_passages, formatted)
    /\ UNCHANGED <<w_args, w_output, w_lines, w_line, w_current_passage,
                   w_current_verse_parts, w_current_verse_info, w_passages,
                   w_stdout, w_pc, w_exit, wrapIdle>>

\* lines 624 and 629: print('\n\n'.join(formatted_passages)); return 0
PrintPassages ==
    /\ w_pc = "format"
    /\ Len(w_formatted_passages) = Len(w_passages)
    /\ w_stdout' = <<Join(w_formatted_passages, <<"\n", "\n">>)>>
    /\ w_exit' = <<0>>
    /\ w_pc' = "done"
    /\ UNCHANGED <<w_args, w_output, w_lines, w_line, w_current_passage,
                   w_current_verse_parts, w_current_verse_info, w_passages,
                   w_formatted_passages, wrapIdle>>

NextWrap ==
    \/ PassThrough
    \/ ParseBegin
    \/ AtSentinel
    \/ AtBlankLine
    \/ AtVerseStart
    \/ AtContinuation
    \/ AtStrayLine
    \/ ReturnPassages
    \/ FormatPassage
    \/ PrintPassages

SpecWrap == InitWrap /\ [][NextWrap]_vars

(***************************************************************************)
(* bible-to-format_v2.py: extract_notes and parse_html_verses,             *)
(* lines 158-285.                                                          *)
(***************************************************************************)
\* str(n) for n >= 0
RECURSIVE ToStr(_)
ToStr(n) ==
    IF n < 10 THEN <<DigitSeq[n + 1]>>
    ELSE ToStr(n \div 10) \o <<DigitSeq[(n % 10) + 1]>>

\* lines 168-175, by tag: the label and the n="..." marker of the attributes
NoteAttrs ==
    [t \in NoteOpenLike |->
        [label |-> IF t = "<note type=\"crossReference\">"
                   THEN <<"r", "e", "f">> ELSE <<"n", "o", "t", "e">>,
         marker |-> IF t = "<note n=\"a\">" THEN <<<<"a">>>> ELSE <<>>]]

\* line 177: f"__NOTE{note_idx}__"
Placeholder(note_idx) ==
    <<"_", "_", "N", "O", "T", "E">> \o ToStr(note_idx) \o <<"_", "_">>

\* lines 162-179: re.sub(r'<note([^>]*)>(.*?)</note>', repl, text, DOTALL),
\* as the text and the notes collected from position p on, note_idx notes
\* being collected already
RECURSIVE SubNotes(_, _, _)
SubNotes(s, p, note_idx) ==
    IF p > Len(s) THEN [text |-> <<>>, notes |-> <<>>]
    ELSE
      LET q == LazyEnd(s, p + 1, NoteClose, TRUE)
      IN  IF s[p] \in NoteOpenLike /\ q > 0
          THEN LET content == Strip(SubSeq(s, p + 1, q - 1))
                   attrs == NoteAttrs[s[p]]
                   marker == IF attrs.marker # <<>> THEN attrs.marker[1]
                             ELSE ToStr(note_idx + 1)
               IN  IF content = <<>> THEN SubNotes(s, q + 1, note_idx)
                   ELSE LET rest == SubNotes(s, q + 1, note_idx + 1)
                        IN  [text |-> Placeholder(note_idx + 1) \o rest.text,
                             notes |-> <<[label |-> attrs.label,
                                          content |-> content,
                                          marker |-> marker]>> \o rest.notes]
          ELSE LET rest == SubNotes(s, p + 1, note_idx)
               IN  [text |-> <<s[p]>> \o rest.text, notes |-> rest.notes]

\* line 181: re.sub(r'<note[^>]*></note>', '', text)
RECURSIVE DropEmptyNotePairs(_, _)
DropEmptyNotePairs(s, p) ==
    IF p > Len(s) THEN <<>>
    ELSE IF s[p] \in NoteOpenLike /\ p < Len(s) /\ s[p + 1] = NoteClose
         THEN DropEmptyNotePairs(s, p + 2)
         ELSE <<s[p]>> \o DropEmptyNotePairs(s, p + 1)

\* lines 158-183
extract_notes(text, inline_notes) ==
    LET found == SubNotes(text, 1, 0)
        t1 == Without(found.text, NoteSelfClosing)
        t2 == DropEmptyNotePairs(t1, 1)
    IN  [text |-> t2, notes |-> found.notes]

\* [A-Za-z]+ or [A-Za-z0-9]+ : the length of the run of such characters
RECURSIVE NameRun(_, _, _)
NameRun(s, p, class) ==
    IF p <= Len(s) /\ s[p] \in class THEN 1 + NameRun(s, p + 1, class) ELSE 0

Letters == AsciiLower \cup AsciiUpper
Alphanumerics == Letters \cup Digits

\* name+ (\d+):(\d+): at position p: the position after the second colon,
\* 0 when the pattern does not match there
HeaderAt(s, p, class) ==
    LET n == NameRun(s, p, class)
    IN  IF n >= 1 /\ p + n <= Len(s) /\ s[p + n] = " "
        THEN ChapterVerseAt(s, p + n + 1)
        ELSE 0

\* the groups of a header that matches at p
HeaderGroups(s, p, class) ==
    LET n == NameRun(s, p, class)
        c == DigitRun(s, p + n + 1)
        v == DigitRun(s, p + n + c + 2)
    IN  [book |-> SubSeq(s, p, p + n - 1),
         chapter |-> SubSeq(s, p + n + 1, p + n + c),
         verse_number |-> SubSeq(s, p + n + c + 2, p + n + c + 1 + v)]

\* (.+?)(?=\n(?:[A-Za-z]+ \d+:\d+:|\Z)) from position p: the last position
\* of the shortest content, 0 when there is none
RECURSIVE PlainContentEnd(_, _)
PlainContentEnd(s, e) ==
    IF e >= Len(s) THEN 0
    ELSE IF s[e + 1] = "\n" /\ (e + 1 = Len(s) \/ HeaderAt(s, e + 2, Letters) > 0)
         THEN e
         ELSE PlainContentEnd(s, e + 1)

\* lines 237-240: re.findall of the plain pattern from position p on
RECURSIVE PlainBlocks(_, _)
PlainBlocks(s, p) ==
    IF p > Len(s) THEN <<>>
    ELSE
      LET h == HeaderAt(s, p, Letters)
          e == IF h > 0 /\ h <= Len(s) /\ s[h] = " " THEN PlainContentEnd(s, h + 1)
               ELSE 0
      IN  IF e > 0
          THEN <<HeaderGroups(s, p, Letters) @@
                 [verse_content |-> SubSeq(s, h + 1, e)]>>
               \o PlainBlocks(s, e + 1)
          ELSE PlainBlocks(s, p + 1)

\* (.*?)</span><br\s*/> from position p: the position of </span>, 0 when
\* there is none
RECURSIVE SpanEnd(_, _)
SpanEnd(s, p) ==
    IF p >= Len(s) THEN 0
    ELSE IF s[p] = SpanClose /\ s[p + 1] \in BreakTags THEN p
         ELSE SpanEnd(s, p + 1)

\* lines 253-256: re.findall of the pattern of a verse in a span
RECURSIVE SpanBlocks(_, _)
SpanBlocks(s, p) ==
    IF p > Len(s) THEN <<>>
    ELSE
      LET h == HeaderAt(s, p, Alphanumerics)
          q == IF /\ h > 0
                  /\ h + 1 <= Len(s)
                  /\ s[h] = " "
                  /\ s[h + 1] \in SpanOpen
               THEN SpanEnd(s, h + 2)
               ELSE 0
      IN  IF q > 0
          THEN <<HeaderGroups(s, p, Alphanumerics) @@
                 [verse_content |-> SubSeq(s, h + 2, q - 1)]>>
               \o SpanBlocks(s, q + 2)
          ELSE SpanBlocks(s, p + 1)

\* line 242: re.sub(r'<milestone type="line"[^>]*/?>', '\n', verse_content)
BreakAtMilestones(s) ==
    [i \in DOMAIN s |-> IF s[i] \in Milestones THEN "\n" ELSE s[i]]

\* lines 241-247: one verse of a plain payload, absent when it has no lines
PlainVerse(block, inline_notes) ==
    LET extracted == extract_notes(BreakAtMilestones(block.verse_content), inline_notes)
        lines == StripNonBlank(Split(extracted.text, "\n"))
    IN  IF lines = <<>> THEN <<>>
        ELSE <<[book |-> block.book, chapter |-> block.chapter,
                verse_number |-> ToInt(block.verse_number), lines |-> lines,
                has_smallcaps |-> Contains(extracted.text, HiSmallCaps),
                notes |-> extracted.notes]>>

\* line 280: a prose verse is one line, whatever is left of it
ProseLines(verse_content) == <<Strip(verse_content)>>

\* lines 265-277: the lines of a poetic verse
PoeticLines(verse_content) ==
    LET p1 == BreakAtAdjacentMarkers(verse_content, 1)
        p2 == Without(p1, {LineStart, LineEnd})
        p3 == Without(p2, ChapterTags)
    IN  StripNonBlank(Split(p3, "\n"))

\* lines 258-283: one verse in a span, absent when it has no lines
SpanVerse(block, has_l_tags, inline_notes) ==
    LET extracted == extract_notes(block.verse_content, inline_notes)
        lines == IF has_l_tags THEN PoeticLines(extracted.text)
                 ELSE ProseLines(extracted.text)
    IN  IF lines = <<>> THEN <<>>
        ELSE <<[book |-> block.book, chapter |-> block.chapter,
                verse_number |-> ToInt(block.verse_number), lines |-> lines,
                has_smallcaps |-> Contains(extracted.text, HiSmallCaps),
                notes |-> extracted.notes]>>

\* the verses of the blocks, in order
RECURSIVE PlainVerses(_, _)
PlainVerses(blocks, inline_notes) ==
    IF blocks = <<>> THEN <<>>
    ELSE PlainVerse(Head(blocks), inline_notes)
         \o PlainVerses(Tail(blocks), inline_notes)

RECURSIVE SpanVerses(_, _, _)
SpanVerses(blocks, has_l_tags, inline_notes) ==
    IF blocks = <<>> THEN <<>>
    ELSE SpanVerse(Head(blocks), has_l_tags, inline_notes)
         \o SpanVerses(Tail(blocks), has_l_tags, inline_notes)

\* lines 220-285
parse_html_verses(html_content, inline_notes) ==
    LET content == Without(html_content, ChapterTags \cup DivTags)
        has_verse_html_tags == \E i \in DOMAIN content : content[i] \in SpanOpen
        has_l_tags == Contains(content, LineStart)
    IN  IF ~has_verse_html_tags
        THEN PlainVerses(PlainBlocks(content, 1), inline_notes)
        ELSE SpanVerses(SpanBlocks(content, 1), has_l_tags, inline_notes)

(***************************************************************************)
(* bible-to-format_v2.py: the text of a line and of a note,                *)
(* lines 186-217 and 288-381.  A format is one of "typ", "tex", "md",      *)
(* "org", "plain".                                                         *)
(***************************************************************************)
\* re.sub(r'<i>(.*?)</i>', ..., text): each <i>, text of one line, </i>
\* becomes before + the text + after
RECURSIVE SubItalic(_, _, _, _)
SubItalic(s, p, before, after) ==
    IF p > Len(s) THEN <<>>
    ELSE LET q == LazyEnd(s, p + 1, ItalicClose, FALSE)
         IN  IF s[p] = ItalicOpen /\ q > 0
             THEN before \o SubSeq(s, p + 1, q - 1) \o after
                  \o SubItalic(s, q + 1, before, after)
             ELSE <<s[p]>> \o SubItalic(s, p + 1, before, after)

\* lines 291-304: small capitals and italics in the markup of the format
Emphasis(text, format) ==
    CASE format = "typ" ->
           SubItalic(SubHi(text, 1, HiSmallCaps, <<"#", "s", "m", "a", "l", "l", "c", "a", "p", "s", "[">>, <<"]">>, TRUE),
                     1, <<"#", "e", "m", "p", "h", "[">>, <<"]">>)
      [] format = "tex" ->
           SubItalic(SubHi(text, 1, HiSmallCaps, <<"\\", "t", "e", "x", "t", "s", "c", "{">>, <<"}">>, TRUE),
                     1, <<"\\", "e", "m", "p", "h", "{">>, <<"}">>)
      [] format = "md" ->
           SubItalic(SubHi(text, 1, HiSmallCaps, <<"*", "*">>, <<"*", "*">>, TRUE),
                     1, <<"*">>, <<"*">>)
      [] format = "org" ->
           SubItalic(SubHi(text, 1, HiSmallCaps, <<"*">>, <<"*">>, TRUE),
                     1, <<"/">>, <<"/">>)
      [] OTHER -> text

\* lines 288-309
process_text(text, format, options) == Strip(Without(Emphasis(text, format), Tags))

\* lines 186-191
note_marker(fmt, marker) ==
    CASE fmt = "org" -> <<"[", "f", "n", ":">> \o marker \o <<"]">>
      [] fmt = "md" -> <<"[", "^">> \o marker \o <<"]">>
      [] OTHER -> <<"[">> \o marker \o <<"]">>

\* lines 196-215: repl, what stands for the placeholder of a note
repl_note(note, fmt, options, inline_notes) ==
    LET content_txt == process_text(note.content, fmt, options)
        body == note.marker \o <<".", " ">> \o content_txt
        before == CASE fmt = "org" -> <<"[", "f", "n", ":", ":", " ">>
                    [] fmt = "md" -> <<"^", "[">>
                    [] fmt = "tex" -> <<"\\", "f", "o", "o", "t", "n", "o", "t", "e", "{">>
                    [] fmt = "typ" -> <<"#", "f", "o", "o", "t", "n", "o", "t", "e", "[">>
                    [] OTHER -> <<"[">>
        after == IF fmt = "tex" THEN <<"}", " ">> ELSE <<"]", " ">>
    IN  IF inline_notes
        THEN before \o body \o after
        ELSE CASE fmt = "tex" -> <<"\\", "t", "e", "x", "t", "s", "u", "p", "e", "r", "s", "c", "r", "i", "p", "t", "{">> \o note.marker \o <<"}">>
               [] fmt = "typ" -> <<"#", "s", "u", "p", "e", "r", "[">> \o note.marker \o <<"]">>
               [] OTHER -> note_marker(fmt, note.marker)

\* __NOTE(\d+)__ at position p: the number of digits, 0 when the pattern
\* does not match there
PlaceholderAt(s, p) ==
    LET d == DigitRun(s, p + 6)
    IN  IF /\ MatchAt(s, p, <<"_", "_", "N", "O", "T", "E">>)
           /\ d >= 1
           /\ MatchAt(s, p + 6 + d, <<"_", "_">>)
        THEN d ELSE 0

\* lines 194-217: re.sub(r'__NOTE(\d+)__', repl, text); the texts of the
\* model hold no placeholder but those of their own notes
RECURSIVE render_notes_in_text(_, _, _, _, _)
render_notes_in_text(text, fmt, notes, options, inline_notes) ==
    IF text = <<>> THEN <<>>
    ELSE LET d == PlaceholderAt(text, 1)
             index == ToInt(SubSeq(text, 7, 6 + d))
         IN  IF d > 0 /\ index \in DOMAIN notes
             THEN repl_note(notes[index], fmt, options, inline_notes)
                  \o render_notes_in_text(SubSeq(text, 9 + d, Len(text)), fmt,
                                          notes, options, inline_notes)
             ELSE <<Head(text)>>
                  \o render_notes_in_text(Tail(text), fmt, notes, options,
                                          inline_notes)

\* lines 312-319
format_note_text(fmt, note, options) ==
    LET label_txt == IF note.label = <<"r", "e", "f">> THEN <<"r", "e", "f">> ELSE <<"n", "o", "t", "e">>
        content_txt == process_text(note.content, fmt, options)
        mark == CASE fmt = "tex" -> <<"\\", "t", "e", "x", "t", "s", "u", "p", "e", "r", "s", "c", "r", "i", "p", "t", "{">> \o note.marker \o <<"}">>
                  [] fmt = "typ" -> <<"#", "s", "u", "p", "e", "r", "[">> \o note.marker \o <<"]">>
                  [] OTHER -> note_marker(fmt, note.marker)
    IN  mark \o <<" ">> \o label_txt \o <<":", " ">> \o content_txt

\* lines 367-374
format_verse_prefix(fmt, verse_num, verse_nums) ==
    IF verse_nums = "none" THEN <<>>
    ELSE IF fmt \in {"tex", "typ"} THEN <<>>
    ELSE IF verse_nums = "colons" THEN ToStr(verse_num) \o <<":", " ">>
    ELSE ToStr(verse_num) \o <<".", " ">>

\* lines 377-381
format_verse_label(fmt, verse_num, verse_nums) ==
    IF verse_nums = "none" THEN <<>>
    ELSE ToStr(verse_num) \o (IF verse_nums = "colons" THEN <<":">> ELSE <<".">>)

\* render_notes_in_text(process_text(line, fmt, options), fmt, notes, ...)
LineText(line, fmt, notes, options, inline_notes) ==
    render_notes_in_text(process_text(line, fmt, options), fmt, notes, options,
                         inline_notes)

\* the lines of the notes of a verse, each after the indent; none when the
\* notes are inline
NoteLines(fmt, notes, options, inline_notes, indent) ==
    IF inline_notes THEN <<>>
    ELSE [i \in DOMAIN notes |-> indent \o format_note_text(fmt, notes[i], options)]

(***************************************************************************)
(* bible-to-format_v2.py: the formats, lines 413-622.  A verse of a        *)
(* passage is [verse_number, lines, has_smallcaps, notes].                 *)
(***************************************************************************)
\* the first verse has more than one line
has_poetry_First(verses) == verses # <<>> /\ Len(verses[1].lines) > 1

\* any(len(lines) > 1 for _, lines, _, _ in verses)
has_poetry(verses) == \E i \in DOMAIN verses : Len(verses[i].lines) > 1

\* the texts of the lines of a verse
LineTexts(v, fmt, options, inline_notes) ==
    [i \in DOMAIN v.lines |->
        LineText(v.lines[i], fmt, v.notes, options, inline_notes)]

\* the common body of a verse: a prefix before its first line, an indent
\* before each other line and before each line of notes
VerseLines(v, fmt, options, inline_notes, prefix, indent, note_indent) ==
    [i \in DOMAIN v.lines |->
        (IF i = 1 THEN prefix ELSE indent)
        \o LineText(v.lines[i], fmt, v.notes, options, inline_notes)]
    \o NoteLines(fmt, v.notes, options, inline_notes, note_indent)

\* lines 417-434
TypstRows(v, options, verse_nums, inline_notes) ==
    LET label == format_verse_label("typ", v.verse_number, verse_nums)
        empty_cell == <<" ", " ", " ", " ", "[", "]", ",", " ", "[">>
    IN  [i \in DOMAIN v.lines |->
            (IF i = 1 /\ label # <<>>
             THEN <<" ", " ", " ", " ", "[", "#", "t", "e", "x", "t", "(", "s", "i", "z", "e", ":", "1", "1", "p", "t", ")", "[">> \o label \o <<"]", "]", ",", " ", "[">>
             ELSE empty_cell)
            \o LineText(v.lines[i], "typ", v.notes, options, inline_notes)
            \o <<"]", ",">>]
        \o (IF inline_notes THEN <<>>
            ELSE [i \in DOMAIN v.notes |->
                     empty_cell \o format_note_text("typ", v.notes[i], options)
                     \o <<"]", ",">>])

RECURSIVE Flatten(_)
Flatten(seqs) == IF seqs = <<>> THEN <<>> ELSE Head(seqs) \o Flatten(Tail(seqs))

\* lines 436-448
TypstSimpleVerse(v, options, verse_nums, inline_notes) ==
    LET label == format_verse_label("typ", v.verse_number, verse_nums)
        verse_text == Join(LineTexts(v, "typ", options, inline_notes), <<"\n">>)
        note_text == Join(NoteLines("typ", v.notes, options, inline_notes, <<>>), <<"\n">>)
        prefix == IF label # <<>> THEN <<"#", "s", "u", "p", "e", "r", "[">> \o label \o <<"]", " ">> ELSE <<>>
    IN  prefix \o (IF ~inline_notes /\ note_text # <<>>
                   THEN verse_text \o <<"\n">> \o note_text
                   ELSE verse_text)

\* lines 413-448
format_typst(verses, style, options, verse_nums, inline_notes) ==
    IF style = "table"
    THEN <<"#", "t", "a", "b", "l", "e", "(", "c", "o", "l", "u", "m", "n", "s", ":", " ", "(", "a", "u", "t", "o", ",", " ", "a", "u", "t", "o", ")", ",", " ", "s", "t", "r", "o", "k", "e", ":", " ", "n", "o", "n", "e", ",", "\n">>
         \o Join(Flatten([i \in DOMAIN verses |->
                    TypstRows(verses[i], options, verse_nums, inline_notes)]), <<"\n">>)
         \o <<"\n", ")">>
    ELSE Join([i \in DOMAIN verses |->
                 TypstSimpleVerse(verses[i], options, verse_nums, inline_notes)], <<"\n", "\n">>)

\* \textsuperscript{label} and a space, nothing without a label
LatexVerseMarker(v, verse_nums) ==
    LET label == format_verse_label("tex", v.verse_number, verse_nums)
    IN  IF label # <<>> THEN <<"\\", "t", "e", "x", "t", "s", "u", "p", "e", "r", "s", "c", "r", "i", "p", "t", "{">> \o label \o <<"}", " ">> ELSE <<>>

\* lines 457-476: what a verse appends to output
LatexOutput(v, options, verse_nums, inline_notes) ==
    LET verse_marker == LatexVerseMarker(v, verse_nums)
        verse_lines == [i \in DOMAIN v.lines |->
                          (IF i = 1 THEN verse_marker
                           ELSE <<"\\", "v", "i", "n", " ">>)
                          \o LineText(v.lines[i], "tex", v.notes, options, inline_notes)]
    IN  << IF Len(v.lines) = 1 THEN verse_lines[1]
           ELSE Join(verse_lines, <<"\\", "\\", "\n">>) >>
        \o NoteLines("tex", v.notes, options, inline_notes, <<"\\", "q", "u", "a", "d", " ">>)

\* lines 451-483
format_latex(verses, options, verse_nums, inline_notes) ==
    LET output == Flatten([i \in DOMAIN verses |->
                     LatexOutput(verses[i], options, verse_nums, inline_notes)])
        poetry == has_poetry(verses)
    IN  (IF poetry THEN <<"\\", "b", "e", "g", "i", "n", "{", "v", "e", "r", "s", "e", "}", "\n">> ELSE <<>>)
        \o Join(output, IF poetry THEN <<"\\", "\\", "\n", "\n">> ELSE <<"\n", "\n">>)
        \o (IF poetry THEN <<"\n", "\\", "e", "n", "d", "{", "v", "e", "r", "s", "e", "}">> ELSE <<>>)

\* lines 486-507
format_latex_simple(verses, options, verse_nums, inline_notes) ==
    Join([i \in DOMAIN verses |->
            Join(VerseLines(verses[i], "tex", options, inline_notes,
                            LatexVerseMarker(verses[i], verse_nums), <<>>,
                            <<"\\", "q", "u", "a", "d", " ">>), <<" ", "\\", "\\", "\n">>)], <<" ", "\\", "\\", "\n", "\n">>)

\* lines 510-530
format_markdown(verses, options, verse_nums, inline_notes) ==
    Join([i \in DOMAIN verses |->
            Join(VerseLines(verses[i], "md", options, inline_notes,
                            format_verse_prefix("md", verses[i].verse_number, verse_nums),
                            <<" ", " ", " ", " ">>, <<" ", " ", " ", " ">>), <<"\n">>)], <<"\n", "\n">>)

\* lines 533-552
format_markdown_simple(verses, options, verse_nums, inline_notes) ==
    Join([i \in DOMAIN verses |->
            Join(VerseLines(verses[i], "md", options, inline_notes,
                            format_verse_prefix("md", verses[i].verse_number, verse_nums),
                            <<>>, <<>>), <<" ", " ", "\n">>)], <<"\n", "\n">>)

\* lines 555-571
format_plain(verses, options, verse_nums, inline_notes) ==
    Join([i \in DOMAIN verses |->
            Join(VerseLines(verses[i], "plain", options, inline_notes,
                            format_verse_prefix("plain", verses[i].verse_number, verse_nums),
                            <<" ", " ", " ", " ">>, <<" ", " ", " ", " ">>), <<"\n">>)], <<"\n", "\n">>)

\* lines 574-594
format_org(verses, options, verse_nums, inline_notes) ==
    Join([i \in DOMAIN verses |->
            Join(VerseLines(verses[i], "org", options, inline_notes,
                            format_verse_prefix("org", verses[i].verse_number, verse_nums),
                            <<" ", " ", " ">>, <<" ", " ", " ">>), <<"\n">>)], <<"\n", "\n">>)

\* lines 597-622
format_org_verse(verses, options, verse_nums, inline_notes) ==
    LET content == format_org(verses, options, verse_nums, inline_notes)
        poetry == has_poetry(verses)
    IN  (IF poetry THEN <<"#", "+", "B", "E", "G", "I", "N", "_", "V", "E", "R", "S", "E", "\n">> ELSE <<>>)
        \o content
        \o (IF poetry THEN <<"\n", "#", "+", "E", "N", "D", "_", "V", "E", "R", "S", "E">> ELSE <<>>)

\* every verse a passage of its own
group_passages_OnePerVerse(verses) ==
    [i \in DOMAIN verses |->
        [book |-> verses[i].book, chapter |-> verses[i].chapter,
         verses |-> <<[verse_number |-> verses[i].verse_number,
                       lines |-> verses[i].lines,
                       has_smallcaps |-> verses[i].has_smallcaps,
                       notes |-> verses[i].notes]>>]]

\* lines 384-393: the verses of a passage are those of one run of verses
\* with the same book and chapter
RECURSIVE group_passages(_)
group_passages(verses) ==
    IF verses = <<>> THEN <<>>
    ELSE LET rest == group_passages(SubSeq(verses, 1, Len(verses) - 1))
             v == verses[Len(verses)]
             entry == [verse_number |-> v.verse_number, lines |-> v.lines,
                       has_smallcaps |-> v.has_smallcaps, notes |-> v.notes]
             n == Len(rest)
         IN  IF n = 0 \/ rest[n].book # v.book \/ rest[n].chapter # v.chapter
             THEN Append(rest, [book |-> v.book, chapter |-> v.chapter,
                                verses |-> <<entry>>])
             ELSE [rest EXCEPT ![n].verses = Append(@, entry)]

(***************************************************************************)
(* bible-to-format_v2.py: the citation of a passage, lines 21-122 and      *)
(* 322-410.  An optional string is <<>> (None) or <<string>>.              *)
(***************************************************************************)
\* line 22
DUTCH_MODULES == {<<"H", "S", "V">>, <<"D", "u", "t", "S", "V", "V">>, <<"N", "B", "V", "2", "1">>, <<"B", "G", "T">>, <<"G", "B", "S">>, <<"D", "u", "t", "S", "V", "V", "A">>}

\* lines 25-47, 49-71 and 78-100: the entries of two books
DUTCH_BOOK_NAMES == { <<Exodus, <<"E", "x", "o", "d", "u", "s">>>>, <<Psalms, <<"P", "s", "a", "l", "m", "e", "n">>>> }
DUTCH_BOOK_ABBREV == { <<Exodus, <<"E", "x", ".">>>>, <<Psalms, <<"P", "s", ".">>>> }
ENGLISH_BOOK_ABBREV == { <<Exodus, <<"E", "x", ".">>>>, <<Psalms, <<"P", "s", ".">>>> }

\* lines 73-76
VERSION_ABBREV == { <<DutSVV, <<"S", "V">>>>, <<<<"G", "B", "S", "2">>, <<"S", "V", "-", "G", "B", "S">>>> }

\* lines 107-114
get_book_name(book, module, book_style) ==
    IF module # <<>> /\ module[1] # <<>> /\ module[1] \in DUTCH_MODULES
    THEN IF book_style = "abbr" THEN DictGet(DUTCH_BOOK_ABBREV, book, book)
         ELSE DictGet(DUTCH_BOOK_NAMES, book, book)
    ELSE IF book_style = "abbr" THEN DictGet(ENGLISH_BOOK_ABBREV, book, book)
    ELSE book

\* lines 117-122
get_version_tag(module, version_abbrev) ==
    IF module = <<>> \/ module[1] = <<>> \/ version_abbrev = "none" THEN <<>>
    ELSE IF version_abbrev = "auto" THEN DictGet(VERSION_ABBREV, module[1], module[1])
    ELSE module[1]

\* \(([A-Za-z0-9]+)\)\s*</body> at position p: the length of the name, 0
\* when the pattern does not match there
ModuleAt(s, p) ==
    LET n == NameRun(s, p + 1, Alphanumerics)
        q == p + 1 + n
    IN  IF /\ p <= Len(s) /\ s[p] = "("
           /\ n >= 1
           /\ q <= Len(s) /\ s[q] = ")"
           /\ q + 1 + SpaceRun(s, q + 1) <= Len(s)
           /\ s[q + 1 + SpaceRun(s, q + 1)] = BodyClose
        THEN n ELSE 0

\* lines 132-133 of extract_reference, the part of its result that main
\* uses: the module named before </body>
extract_reference(html_content) ==
    LET at == {p \in 1..Len(html_content) : ModuleAt(html_content, p) > 0}
        p == CHOOSE p \in at : \A r \in at : p <= r
    IN  [module |-> IF at = {} THEN <<>>
                    ELSE <<SubSeq(html_content, p + 1, p + ModuleAt(html_content, p))>>]

\* lines 322-333
format_ref_text(book, chapter, verse_range, module, book_style, version_abbrev) ==
    IF book = <<>> \/ chapter = <<>> \/ verse_range = <<>> THEN <<>>
    ELSE LET display_book == get_book_name(book, module, book_style)
             version_tag == get_version_tag(module, version_abbrev)
             ref_ == display_book \o <<" ">> \o chapter \o <<":">> \o verse_range
         IN  IF version_tag # <<>> THEN ref_ \o <<" ">> \o version_tag ELSE ref_

\* lines 336-345
wrap_ref_inline(fmt, ref_text) ==
    CASE fmt = "tex" -> <<"\\", "h", "f", "i", "l", "l", " ", "(">> \o ref_text \o <<")">>
      [] fmt = "typ" -> <<"#", "a", "l", "i", "g", "n", "(", "r", "i", "g", "h", "t", ")", "[", "(">> \o ref_text \o <<")", "]">>
      [] fmt = "md" -> <<"*", "(">> \o ref_text \o <<")", "*">>
      [] fmt = "org" -> <<"/", "(">> \o ref_text \o <<")", "/">>
      [] OTHER -> <<"(">> \o ref_text \o <<")">>

\* lines 348-353
ref_marker(fmt) ==
    CASE fmt = "org" -> <<"[", "f", "n", ":", "r", "e", "f", "]">>
      [] fmt = "md" -> <<"[", "^", "r", "e", "f", "]">>
      [] OTHER -> <<>>

\* lines 356-364: the inline part and the footer
format_ref_footnote(fmt, ref_text) ==
    CASE fmt = "tex" -> [inline |-> <<"\\", "f", "o", "o", "t", "n", "o", "t", "e", "{">> \o ref_text \o <<"}">>, footer |-> <<>>]
      [] fmt = "typ" -> [inline |-> <<"#", "f", "o", "o", "t", "n", "o", "t", "e", "[">> \o ref_text \o <<"]">>, footer |-> <<>>]
      [] OTHER ->
           IF ref_marker(fmt) # <<>>
           THEN [inline |-> ref_marker(fmt),
                 footer |-> ref_marker(fmt) \o <<" ">> \o ref_text]
           ELSE [inline |-> wrap_ref_inline(fmt, ref_text), footer |-> <<>>]

\* lines 405-410
build_reference_block_from_text(ref_text, fmt, ref_type) ==
    IF ref_type = "footnote" THEN format_ref_footnote(fmt, ref_text)
    ELSE [inline |-> wrap_ref_inline(fmt, ref_text), footer |-> <<>>]

\* lines 396-402
build_reference_block(book, chapter, verse_range, module, fmt, book_style, version_abbrev, ref_type) ==
    LET ref_text == format_ref_text(book, chapter, verse_range, module,
                                    book_style, version_abbrev)
    IN  IF ref_text = <<>> THEN [inline |-> <<>>, footer |-> <<>>]
        ELSE build_reference_block_from_text(ref_text, fmt, ref_type)

\* lines 738-740
verse_range_of(verses) ==
    LET first_verse == ToStr(verses[1].verse_number)
        last_verse == ToStr(verses[Len(verses)].verse_number)
    IN  IF first_verse = last_verse THEN first_verse
        ELSE first_verse \o <<"-">> \o last_verse

\* lines 686-692: the format, by its short name
Normalized(format) ==
    CASE format \in {"typst", "typ"} -> "typ"
      [] format \in {"latex", "tex"} -> "tex"
      [] format \in {"markdown", "md"} -> "md"
      [] OTHER -> format

\* lines 715-733: the text of a passage in the format and style of args
passage_out_of(verses, args) ==
    LET fmt == Normalized(args.format)
        options == args.options
        verse_nums == args.verse_nums
        inline_notes == args.inline_notes
    IN  CASE fmt = "typ" ->
               format_typst(verses, args.style, options, verse_nums, inline_notes)
          [] fmt = "tex" ->
               IF args.style = "simple"
               THEN format_latex_simple(verses, options, verse_nums, inline_notes)
               ELSE format_latex(verses, options, verse_nums, inline_notes)
          [] fmt = "md" ->
               IF args.style = "simple"
               THEN format_markdown_simple(verses, options, verse_nums, inline_notes)
               ELSE format_markdown(verses, options, verse_nums, inline_notes)
          [] fmt = "org" ->
               IF args.style = "simple"
               THEN format_org(verses, options, verse_nums, inline_notes)
               ELSE format_org_verse(verses, options, verse_nums, inline_notes)
          [] fmt = "plain" ->
               format_plain(verses, options, verse_nums, inline_notes)

\* lines 746-757: the passage with its citation before or after it
WithReference(passage_out, block, ref_pos) ==
    LET cited == IF block.inline = <<>> THEN passage_out
                 ELSE IF ref_pos = "start"
                 THEN block.inline \o <<"\n">> \o passage_out
                 ELSE passage_out \o <<"\n">> \o block.inline
    IN  IF block.footer = <<>> THEN cited ELSE cited \o <<"\n">> \o block.footer

(***************************************************************************)
(* bible-to-format_v2.py: main, lines 625-779.  The texts on stdin are    *)
(* those diatheke prints: plain lines, or lines whose verses are <span>s. *)
(***************************************************************************)
\* a verse as diatheke prints it in HTML
SpanLine(book, chapter, verse, text) ==
    VerseLine(book, chapter, verse,
              <<"<span class=\"verse\">">> \o text \o <<SpanClose, "<br />">>)

\* the lines of an HTML payload: a prose verse, a verse of two poetic
\* lines, a verse that holds an empty note only, a verse of another book
\* that ends with an end-of-line marker, a verse with a note and a cross
\* reference, a verse with a newline in it, and the end of the body
TagLines ==
    { SpanLine(Psalms, <<"1">>, <<"9">>, <<"a">>),
      SpanLine(Psalms, <<"1">>, <<"1", "0">>, <<"b", LineEnd, " ", LineStart, "c">>),
      SpanLine(Psalms, <<"1">>, <<"1", "1">>, <<"<note type=\"x\"/>">>),
      SpanLine(Exodus, <<"2">>, <<"1">>, <<"e", LineEnd>>),
      SpanLine(Psalms, <<"1">>, <<"1", "2">>,
               <<"f", "<note n=\"a\">", "x", NoteClose, "g",
                 "<note type=\"crossReference\">", "y", NoteClose>>),
      SpanLine(Psalms, <<"1">>, <<"1", "3">>, <<"d", "\n", "h">>),
      SentinelLine(ESV) \o <<BodyClose>> }

TagPayloads == {Unlines(lines) : lines \in SeqsUpTo(TagLines, MaxLines)}

\* a psalm of DutSVV in HTML: prose, poetry, small capitals, italics, a
\* note and a cross reference, and a verse of another book
SamplePoetry ==
    Unlines(<< SpanLine(Psalms, <<"1">>, <<"9">>, <<"a">>),
               SpanLine(Psalms, <<"1">>, <<"1", "0">>,
                        <<"b", LineEnd, " ", LineStart, HiSmallCaps, "L",
                          HiClose, ItalicOpen, "c", ItalicClose>>),
               SpanLine(Psalms, <<"1">>, <<"1", "2">>,
                        <<"f", "<note n=\"a\">", "x", NoteClose, "g",
                          "<note type=\"crossReference\">", "y", NoteClose>>),
               SpanLine(Exodus, <<"2">>, <<"1">>, <<"e">>),
               SentinelLine(DutSVV) \o <<BodyClose>> >>)

\* two verses of ESV in HTML, prose only, the second with a note
SampleProse ==
    Unlines(<< SpanLine(Psalms, <<"1">>, <<"9">>, <<"a">>),
               SpanLine(Psalms, <<"1">>, <<"1", "1">>,
                        <<"d", "<note>", "x", NoteClose>>),
               SentinelLine(ESV) \o <<BodyClose>> >>)

\* a verse of ESV in HTML with an empty note tag before a note that has the
\* marker a
SampleNotes ==
    Unlines(<< SpanLine(Psalms, <<"1">>, <<"1", "2">>,
                        <<"f", "<note type=\"x\"/>", "g", "<note n=\"a\">", "x",
                          NoteClose, "h">>),
               SentinelLine(ESV) \o <<BodyClose>> >>)

\* lines 631-681: the defaults of the command line
DefaultFmtArgs ==
    [format |-> "typ", style |-> "table", options |-> <<>>,
     inline_notes |-> FALSE, ref_pos |-> "end", ref_type |-> "inline",
     verse_nums |-> "dots", book_style |-> "full", version_abbrev |-> "auto"]

\* lines 631-681: the choices of the command line
FmtArgs ==
    [format : {"typ", "typst", "tex", "latex", "md", "markdown", "org", "plain"},
     style : {"table", "simple"},
     options : {<<>>},
     inline_notes : BOOLEAN,
     ref_pos : {"start", "end", "none"},
     ref_type : {"inline", "footnote", "combined"},
     verse_nums : {"dots", "colons", "none"},
     book_style : {"full", "abbr"},
     version_abbrev : {"auto", "none"}]

\* the formats under their short names, the verse numbers with dots: the
\* command lines that are run on the samples
SampleFmtArgs ==
    {a \in FmtArgs : /\ a.format \in {"typ", "tex", "md", "org", "plain"}
                     /\ a.verse_nums = "dots"}

\* the command lines that differ from the defaults in the format, the
\* verse numbers or the style only
FormatFmtArgs ==
    {a \in FmtArgs : /\ a.inline_notes = DefaultFmtArgs.inline_notes
                     /\ a.ref_pos = DefaultFmtArgs.ref_pos
                     /\ a.ref_type = DefaultFmtArgs.ref_type
                     /\ a.book_style = DefaultFmtArgs.book_style
                     /\ a.version_abbrev = DefaultFmtArgs.version_abbrev}

InitFmt ==
    /\ InitMain(<<>>, FALSE)
    /\ NormIdle
    /\ TagIdle
    /\ WrapIdle
    /\ \/ /\ f_args = DefaultFmtArgs
          /\ f_html_content \in Payloads \cup TagPayloads \cup {<<" ", "\n">>}
       \/ /\ f_args \in SampleFmtArgs \cup FormatFmtArgs
          /\ f_html_content \in {SamplePoetry, SampleProse, SampleNotes}
    /\ f_module = <<>>
    /\ f_verses_raw = <<>>
    /\ f_passages = <<>>
    /\ f_passage = 0
    /\ f_outputs = <<>>
    /\ f_combined_refs = <<>>
    /\ f_stdout = <<>>
    /\ f_stderr = <<>>
    /\ f_pc = "main"

fmtIdle == <<mainVars, expandVars, parsed, normVars, tagVars, wrapVars>>

\* lines 695-698
NoInput ==
    /\ f_pc = "main"
    /\ Strip(f_html_content) = <<>>
    /\ f_stderr' = <<<<"E", "r", "r", "o", "r", ":", " ", "N", "o", " ", "i", "n", "p", "u", "t", " ", "r", "e", "c", "e", "i", "v", "e", "d", " ", "f", "r", "o", "m", " ", "s", "t", "d", "i", "n">>>>
    /\ f_pc' = "exit1"
    /\ UNCHANGED <<f_args, f_html_content, f_module, f_verses_raw, f_passages,
                   f_passage, f_outputs, f_combined_refs, f_stdout, fmtIdle>>

\* lines 702-704
ParseVerses ==
    /\ f_pc = "main"
    /\ Strip(f_html_content) # <<>>
    /\ f_module' = extract_reference(f_html_content).module
    /\ f_verses_raw' = parse_html_verses(f_html_content, f_args.inline_notes)
    /\ f_pc' = "parsed"
    /\ UNCHANGED <<f_args, f_html_content, f_passages, f_passage, f_outputs,
                   f_combined_refs, f_stdout, f_stderr, fmtIdle>>

\* lines 706-708
NoVerses ==
    /\ f_pc = "parsed"
    /\ f_verses_raw = <<>>
    /\ f_stderr' = <<<<"E", "r", "r", "o", "r", ":", " ", "N", "o", " ", "v", "e", "r", "s", "e", "s", " ", "f", "o", "u", "n", "d", " ", "i", "n", " ", "i", "n", "p", "u", "t">>>>
    /\ f_pc' = "exit1"
    /\ UNCHANGED <<f_args, f_html_content, f_module, f_verses_raw, f_passages,
                   f_passage, f_outputs, f_combined_refs, f_stdout, fmtIdle>>

\* lines 710-712
GroupPassages ==
    /\ f_pc = "parsed"
    /\ f_verses_raw # <<>>
    /\ f_passages' = group_passages(f_verses_raw)
    /\ f_passage' = 1
    /\ f_outputs' = <<>>
    /\ f_combined_refs' = <<>>
    /\ f_pc' = "passages"
    /\ UNCHANGED <<f_args, f_html_content, f_module, f_verses_raw, f_stdout,
                   f_stderr, fmtIdle>>

\* the run cites each passage as well, as it does for inline citations
RenderPassage_CitesEach ==
    /\ f_pc = "passages"
    /\ f_passage <= Len(f_passages)
    /\ \E passage_out \in {passage_out_of(f_passages[f_passage].verses, f_args)} :
       LET p == f_passages[f_passage]
           verse_range == verse_range_of(p.verses)
           ref_text == format_ref_text(p.book, p.chapter, verse_range, f_module,
                                       f_args.book_style, f_args.version_abbrev)
           block == build_reference_block(p.book, p.chapter, verse_range,
                                          f_module, Normalized(f_args.format),
                                          f_args.book_style,
                                          f_args.version_abbrev, "inline")
       IN  /\ f_combined_refs' = IF f_args.ref_type = "combined" /\ ref_text # <<>>
                                 THEN Append(f_combined_refs, ref_text)
                                 ELSE f_combined_refs
           /\ f_outputs' =
                Append(f_outputs,
                       IF f_args.ref_pos # "none"
                       THEN WithReference(passage_out, block, f_args.ref_pos)
                       ELSE passage_out)
    /\ f_passage' = f_passage + 1
    /\ UNCHANGED <<f_args, f_html_content, f_module, f_verses_raw, f_passages,
                   f_stdout, f_stderr, f_pc, fmtIdle>>

\* lines 714-759: one turn of the loop over the passages
RenderPassage ==
    /\ f_pc = "passages"
    /\ f_passage <= Len(f_passages)
    /\ \E passage_out \in {passage_out_of(f_passages[f_passage].verses, f_args)} :
       LET p == f_passages[f_passage]
           fmt == Normalized(f_args.format)
           verse_range == verse_range_of(p.verses)
           ref_text == format_ref_text(p.book, p.chapter, verse_range, f_module,
                                       f_args.book_style, f_args.version_abbrev)
           block == build_reference_block(p.book, p.chapter, verse_range,
                                          f_module, fmt, f_args.book_style,
                                          f_args.version_abbrev, f_args.ref_type)
       IN  IF f_args.ref_type = "combined"
           THEN /\ f_combined_refs' = IF ref_text # <<>>
                                      THEN Append(f_combined_refs, ref_text)
                                      ELSE f_combined_refs
                /\ f_outputs' = Append(f_outputs, passage_out)
           ELSE /\ f_combined_refs' = f_combined_refs
                /\ f_outputs' =
                     Append(f_outputs,
                            IF f_args.ref_pos # "none"
                            THEN WithReference(passage_out, block, f_args.ref_pos)
                            ELSE passage_out)
    /\ f_passage' = f_passage + 1
    /\ UNCHANGED <<f_args, f_html_content, f_module, f_verses_raw, f_passages,
                   f_stdout, f_stderr, f_pc, fmtIdle>>

\* lines 761-775
PrintOutput ==
    /\ f_pc = "passages"
    /\ f_passage > Len(f_passages)
    /\ LET output == Join(f_outputs, <<"\n", "\n">>)
           combined_text == Join(f_combined_refs, <<";", " ">>)
           block == build_reference_block_from_text(combined_text,
                        Normalized(f_args.format), "inline")
       IN  f_stdout' =
             << IF /\ f_args.ref_type = "combined"
                   /\ f_args.ref_pos # "none"
                   /\ combined_text # <<>>
                THEN WithReference(output, block, f_args.ref_pos)
                ELSE output >>
    /\ f_pc' = "done"
    /\ UNCHANGED <<f_args, f_html_content, f_module, f_verses_raw, f_passages,
                   f_passage, f_outputs, f_combined_refs, f_stderr, fmtIdle>>

NextFmt ==
    \/ NoInput
    \/ ParseVerses
    \/ NoVerses
    \/ GroupPassages
    \/ RenderPassage
    \/ PrintOutput

SpecFmt == InitFmt /\ [][NextFmt]_vars

(***************************************************************************)
(* bible-format-wrapper.py: render_w_tags on its own, lines 308-340.  A    *)
(* source is a run of items: a character, or a word in a <w> tag.          *)
(***************************************************************************)
MaxWords == 2

\* the items of a source: two characters, and the word a in each <w> tag
TagItems ==
    {[tag |-> <<>>, content |-> <<"b">>], [tag |-> <<>>, content |-> <<" ">>]}
    \cup {[tag |-> <<t>>, content |-> <<"a">>] : t \in WOpen}

\* an item as it stands in the source
ItemText(item) ==
    IF item.tag = <<>> THEN item.content
    ELSE item.tag \o item.content \o <<WClose>>

\* the source of a run of items
ItemsText(items) == Flatten([i \in DOMAIN items |-> ItemText(items[i])])

\* the values of --options: the letters of the annotations and another one
TagOptions ==
    {<<>>, <<"n">>, <<"l">>, <<"m">>, <<"M">>, <<"f">>, <<"n", "l">>,
     <<"l", "n">>, <<"m", "n">>, <<"n", "l", "m">>, <<"M", "l", "n", "f">>}

InitTags ==
    /\ InitMain(<<>>, FALSE)
    /\ NormIdle
    /\ WrapIdle
    /\ FmtIdle
    /\ rw_src \in {ItemsText(items) : items \in SeqsUpTo(TagItems, MaxWords)}
    /\ rw_options \in TagOptions
    /\ rw_out = <<>>
    /\ rw_pc = "call"

\* text = render_w_tags(text, options)
RenderWTags ==
    /\ rw_pc = "call"
    /\ rw_out' = render_w_tags(rw_src, rw_options)
    /\ rw_pc' = "done"
    /\ UNCHANGED <<mainVars, expandVars, parsed, normVars, rw_src, rw_options,
                   wrapVars, fmtVars>>

NextTags == RenderWTags

SpecTags == InitTags /\ [][NextTags]_vars

(***************************************************************************)
(* The two programs that render a payload, each on its own input.          *)
(***************************************************************************)
InitRender == InitWrap \/ InitFmt

NextRender == NextWrap \/ NextFmt

SpecRender == InitRender /\ [][NextRender]_vars

(***************************************************************************)
(* Claims.                                                                 *)
(***************************************************************************)
\* the largest element of a non-empty set of integers
C3_Max(S) == CHOOSE x \in S : \A y \in S : y <= x

\* the alias table of the run
Table == Mapping(include_apocrypha)

\* C1: normalize is idempotent: normalizing a key again leaves it unchanged.
C1_NormalizeIdempotent == npc = "twice" => nz = ny

\* the documented expansions
C2_Ex_9_9 == <<"E", "x", " ", "9", ":", "9">>
C2_Ex_9_25 == <<"E", "x", " ", "9", ":", "2", "5">>
C2_Ex_25 == <<"E", "x", " ", "2", "5">>
C2_Ex_10_1 == <<"E", "x", " ", "1", "0", ":", "1">>
C2_Gen_10_10 == <<"G", "e", "n", " ", "1", "0", ":", "1", "0">>
C2_Genesis_10_10 == <<"G", "e", "n", "e", "s", "i", "s", " ", "1", "0", ":", "1", "0">>

\* C2: the five documented references expand to the documented fragment
\* lists: once expand_reference_shorthand has returned for one of them,
\* expanded_refs is the documented list.
C2_DocumentedExpansions ==
    pc = "convert" =>
        /\ ref = DocRef1 => expanded_refs = <<C2_Ex_9_9, C2_Ex_9_25>>
        /\ ref = DocRef2 => expanded_refs = <<C2_Ex_9_9, C2_Ex_25>>
        /\ ref = DocRef3 => expanded_refs = <<C2_Ex_9_9, C2_Ex_9_25, C2_Ex_10_1>>
        /\ ref = DocRef4 => expanded_refs = <<C2_Ex_9_9, C2_Gen_10_10>>
        /\ ref = DocRef5 =>
              expanded_refs = <<C2_Ex_9_9, C2_Ex_9_25, C2_Ex_10_1, C2_Genesis_10_10>>

\* the longest documented reference has been expanded
C2_Witness ==
    /\ pc = "convert"
    /\ ref = DocRef5
    /\ Len(expanded_refs) = 4

\* the lengths i for which the first i tokens, joined with spaces or joined
\* without spaces, are an alias
C3_Hits(tokens) ==
    {i \in 1..Len(tokens) :
        LET joined == Join(SubSeq(tokens, 1, i), <<" ">>)
        IN  joined \in DOMAIN Table \/ RemoveSpaces(joined) \in DOMAIN Table}

\* the canonical id of the alias the first i tokens form
C3_BookOf(tokens, i) ==
    LET joined == Join(SubSeq(tokens, 1, i), <<" ">>)
    IN  IF joined \in DOMAIN Table THEN Table[joined]
        ELSE Table[RemoveSpaces(joined)]

C3_1_Kor_13_4 == <<"1", " ", "K", "o", "r", " ", "1", "3", ":", "4">>

\* C3: the Book Matcher returns the longest matching prefix: the book
\* parse_reference chose is the alias of the largest i whose first i tokens,
\* joined with or without spaces, are in the table, the remainder is the
\* tokens after i, and no match means no i hits; "1 Kor 13:4" gives
\* 1Corinthians with remainder "13:4".
C3_LongestPrefix ==
    parsed.tokens # <<>> =>
        LET tokens == parsed.tokens
            hits == C3_Hits(tokens)
        IN  /\ hits = {} => parsed.i = 0
            /\ hits # {} =>
                  /\ parsed.i = C3_Max(hits)
                  /\ Table[parsed.book_part] = C3_BookOf(tokens, C3_Max(hits))
                  /\ parsed.rest_part =
                        Join(SubSeq(tokens, C3_Max(hits) + 1, Len(tokens)), <<" ">>)
            /\ (/\ pc = "convert"
                /\ english_refs # <<>>
                /\ expanded_refs[Len(english_refs)] = C3_1_Kor_13_4)
               => /\ Table[parsed.book_part] = Corinthians1
                  /\ parsed.rest_part = <<"1", "3", ":", "4">>

\* a two-token alias was chosen although its first token alone is an alias
C3_Witness ==
    /\ pc = "convert"
    /\ parsed.i = 2
    /\ 1 \in C3_Hits(parsed.tokens)
    /\ Table[parsed.book_part] = Job

\* the fragment at hand is a bare integer or integer range without a book
C4_BareFragment ==
    /\ InFragment
    /\ ~HasOwnBook
    /\ IsVerseNumber(comma_part)

RECURSIVE C5_SplitAny(_)
C5_SplitAny(s) ==
    LET p == CHOOSE q \in 1..(Len(s) + 1) :
                 /\ q <= Len(s) => s[q] \in {",", ";"}
                 /\ \A k \in 1..(q - 1) : s[k] \notin {",", ";"}
    IN  IF p > Len(s) THEN <<s>>
        ELSE <<SubSeq(s, 1, p - 1)>> \o C5_SplitAny(SubSeq(s, p + 1, Len(s)))

\* the non-blank fragments of a reference, stripped, from left to right
C5_Fragments(reference) == StripNonBlank(C5_SplitAny(reference))

\* the number of fragments in the semicolon parts before part n
RECURSIVE C5_FragmentsBefore(_)
C5_FragmentsBefore(n) ==
    IF n <= 1 THEN 0
    ELSE C5_FragmentsBefore(n - 1)
         + Len(StripNonBlank(Split(semicolon_parts[n - 1], ",")))

\* the position of the fragment at hand among the fragments of the reference
C5_Position == C5_FragmentsBefore(si) + ci

\* the earlier fragments of the reference that have a book of their own
C5_EarlierBooks ==
    {j \in 1..(C5_Position - 1) :
        BookPrefixLen(C5_Fragments(ref)[j], Table) > 0}

\* the book text of the most recent of them
C5_RecentBook ==
    LET f == C5_Fragments(ref)[C3_Max(C5_EarlierBooks)]
    IN  BookText(f, BookPrefixLen(f, Table))

\* C5: a fragment with ':' and no book of its own is emitted as
\* "{lastBook} {fragment}" and sets lastChapter to the text before the colon,
\* lastBook being the book text of the most recent fragment with a book
\* anywhere earlier in the reference, earlier semiParts included.
C5_ChapterVerse ==
    [][ (/\ InFragment
         /\ ~HasOwnBook
         /\ Contains(comma_part, ":")
         /\ C5_EarlierBooks # {}
         /\ pc' # "interrupted") =>
          /\ result' = Append(result, C5_RecentBook \o <<" ">> \o comma_part)
          /\ last_chapter' = Strip(SubSeq(comma_part, 1, IndexFrom(comma_part, ":", 1) - 1))
      ]_vars

\* "Ex 9:9,25; 10:1": 10:1 took the book of the semiPart before it
C5_Witness ==
    /\ pc = "comma"
    /\ ref = DocRef3
    /\ si = 2
    /\ result = <<C2_Ex_9_9, C2_Ex_9_25, C2_Ex_10_1>>
    /\ last_chapter = <<"1", "0">>

\* C6: a chapter:verse fragment, or a bare integer or range, without a book
\* of its own and with no lastBook set fails with MissingBookContext, or
\* MissingBookOrChapterContext: the error is reported with the fragment, no
\* fragment list is returned (expanded_refs is not assigned, the partial
\* result is dropped), nothing goes to diatheke.
C6_MissingContext ==
    [][ (/\ InFragment
         /\ ~HasOwnBook
         /\ last_book = None
         /\ Contains(comma_part, ":") \/ IsVerseNumber(comma_part)
         /\ pc' # "interrupted") =>
          /\ stderr' = Append(stderr,
                [ref |-> idx,
                 error |-> IF Contains(comma_part, ":") THEN "MissingBookContext"
                           ELSE "MissingBookOrChapterContext",
                 arg |-> comma_part])
          /\ result' = <<>>
          /\ expanded_refs' = expanded_refs
          /\ english_refs' = english_refs
          /\ calls' = calls
          /\ pc' = "loop"
          /\ idx' = idx + 1
      ]_vars

\* "Foo;25": Foo was emitted as it is, and 25 then failed with nothing returned
C6_Witness ==
    /\ pc = "loop"
    /\ idx = 2
    /\ references = << <<"F", "o", "o", ";", "2", "5">> >>
    /\ stderr = << [ref |-> 1, error |-> "MissingBookOrChapterContext",
                    arg |-> <<"2", "5">>] >>
    /\ calls = <<>>
    /\ expanded_refs = <<>>

\* x ends with suffix
C7_EndsWith(x, suffix) ==
    /\ Len(suffix) <= Len(x)
    /\ SubSeq(x, Len(x) - Len(suffix) + 1, Len(x)) = suffix

\* C7: when the Expander succeeds its output has one element per non-blank
\* fragment of the reference, in the order of the fragments: the k-th element
\* is made from the k-th fragment (it ends with it); blank fragments give no
\* element.
C7_OnePerFragment ==
    pc = "convert" =>
        LET fragments == C5_Fragments(ref)
        IN  /\ Len(expanded_refs) = Len(fragments)
            /\ \A k \in 1..Len(fragments) :
                  C7_EndsWith(expanded_refs[k], fragments[k])

\* a reference with a blank fragment between two others has been expanded
C7_Witness ==
    /\ pc = "convert"
    /\ Len(expanded_refs) = 2
    /\ Len(C5_SplitAny(ref)) = 3
    /\ Strip(C5_SplitAny(ref)[2]) = <<>>

\* the books of one chapter, as the claim lists them
C8_SingleChapter ==
    { <<"J", "u", "d", "e">>, <<"O", "b", "a", "d", "i", "a", "h">>,
      <<"P", "h", "i", "l", "e", "m", "o", "n">>, <<"2", "J", "o", "h", "n">>,
      <<"3", "J", "o", "h", "n">> }

\* C8: the Builder returns the bare book id when the remainder is empty,
\* "{book} 1:{remainder}" when the remainder is non-empty, has no ':' and the
\* book is Jude, Obadiah, Philemon, 2John or 3John, and "{book} {remainder}"
\* in every other case; "Jude 5" becomes "Jude 1:5".
C8_CanonicalBuilder ==
    (pc = "convert" /\ english_refs # <<>>) =>
        LET n == Len(english_refs)
            out == english_refs[n]
            book == Table[parsed.book_part]
            remainder == parsed.rest_part
        IN  /\ remainder = <<>> => out = book
            /\ (/\ remainder # <<>>
                /\ ~Contains(remainder, ":")
                /\ book \in C8_SingleChapter)
               => out = book \o <<" ", "1", ":">> \o remainder
            /\ (/\ remainder # <<>>
                /\ Contains(remainder, ":") \/ book \notin C8_SingleChapter)
               => out = book \o <<" ">> \o remainder
            /\ expanded_refs[n] = <<"J", "u", "d", "e", " ", "5">>
               => out = <<"J", "u", "d", "e", " ", "1", ":", "5">>

\* "Jude 5" has been built
C8_Witness ==
    /\ pc = "convert"
    /\ expanded_refs = << <<"J", "u", "d", "e", " ", "5">> >>
    /\ english_refs = << <<"J", "u", "d", "e", " ", "1", ":", "5">> >>

\* the canonical strings of the expanded fragments, in expansion order
C9_Canonical ==
    [k \in 1..Len(expanded_refs) |->
        parse_reference(expanded_refs[k], include_apocrypha)]

\* an expanded fragment of the reference at hand has no matching alias prefix
C9_UnknownBook ==
    /\ pc = "convert"
    /\ \E k \in 1..Len(expanded_refs) : C9_Canonical[k].error = "UnknownBook"

\* C9: the key diatheke is called with is the canonical strings of all the
\* expanded fragments of the reference, in expansion order, joined with
\* "; "; a reference with a fragment of unknown book never reaches diatheke:
\* it is left only by the failure of the whole reference (or an interrupt).
C9_Compound ==
    [][ /\ calls' # calls =>
              /\ \A k \in 1..Len(expanded_refs) : C9_Canonical[k].ok
              /\ calls' = Append(calls,
                    [ref |-> idx,
                     key |-> Join([k \in 1..Len(expanded_refs) |->
                                      C9_Canonical[k].value], <<";", " ">>)])
        /\ C9_UnknownBook =>
              /\ calls' = calls
              /\ pc' \in {"convert", "loop", "interrupted"}
              /\ pc' = "loop" =>
                    /\ Len(stderr') = Len(stderr) + 1
                    /\ stderr'[Len(stderr')].ref = idx
                    /\ stderr'[Len(stderr')].error = "UnknownBook"
                    /\ idx' = idx + 1
      ]_vars

\* "Ex 9:9, Foo 1" failed although Ex 9:9 resolved, and a compound key of
\* two canonical strings went to diatheke for the reference after it
C9_Witness ==
    /\ references = <<Ref_Ex_Foo, DocRef1>>
    /\ stderr = << [ref |-> 1, error |-> "UnknownBook", arg |-> <<"f", "o", "o">>] >>
    /\ calls = << [ref |-> 2,
                   key |-> <<"E", "x", "o", "d", "u", "s", " ", "9", ":", "9", ";", " ",
                             "E", "x", "o", "d", "u", "s", " ", "9", ":", "2", "5">>] >>

\* the references a failure was reported for, and those that went to diatheke
C10_Failed == {stderr[k].ref : k \in DOMAIN stderr}
C10_Called == {calls[k].ref : k \in DOMAIN calls}

\* C10: a resolution failure does not stop the batch: the step that reports
\* it reports that one failure and goes on to the next reference; a run that
\* ends (uninterrupted) has attempted every reference, each one either
\* reported as failed or handed to diatheke; and once a reference has failed
\* the status is non-zero whatever the later references do.
C10_BatchGoesOn ==
    /\ [](stderr # <<>> => exit_code # 0)
    /\ [](pc = "done" /\ references # <<>> =>
            /\ C10_Failed \cup C10_Called = 1..Len(references)
            /\ C10_Failed \cap C10_Called = {}
            /\ Len(stderr) = Cardinality(C10_Failed))
    /\ [][ stderr' # stderr =>
              /\ Len(stderr') = Len(stderr) + 1
              /\ SubSeq(stderr', 1, Len(stderr)) = stderr
              /\ stderr'[Len(stderr')].ref = idx
              /\ pc' = "loop"
              /\ idx' = idx + 1
              /\ references' = references
      ]_vars

\* the first reference failed, the second one went to diatheke, which
\* returned 0, and the run ended with a non-zero status
C10_Witness ==
    /\ pc = "done"
    /\ Len(references) = 2
    /\ C10_Failed = {1}
    /\ C10_Called = {2}
    /\ exit_code = 1

\* the spellings of one book name: precomposed, decomposed, upper case, plain
C11_Spellings ==
    { <<"M", "a", "t", "t", "h", "e", "u-uml", "s">>,
      <<"M", "a", "t", "t", "h", "e", "u", "U+0308", "s">>,
      <<"M", "A", "T", "T", "H", "E", "U", "S">>,
      <<"m", "a", "t", "t", "h", "e", "u", "s">> }
C11_mattheus == <<"m", "a", "t", "t", "h", "e", "u", "s">>

\* x is a digit d followed by a non-empty sequence w of letters
C11_DigitThenLetters(x) ==
    /\ Len(x) >= 2
    /\ x[1] \in Digits
    /\ \A i \in 2..Len(x) : x[i] \in AsciiLower \cup AsciiUpper
\* d + " " + w
C11_Spaced(x) == <<x[1], " ">> \o Tail(x)

\* C11: normalize gives the same key for the spellings of a name that differ
\* in case or diacritics, and for a digit followed by letters it gives the key
\* of the same text with a space between the digit and the letters.
C11_Insensitive ==
    npc = "once" =>
        /\ nx \in C11_Spellings => ny = C11_mattheus
        /\ C11_DigitThenLetters(nx) => ny = normalize_text(C11_Spaced(nx))

\* the characters the comment of line 153 calls punctuation
C12_Punctuation == {".", ",", ";", "!", "?", "(", ")", "[", "]", "{", "}"}
C12_Gen_dot_1_1 == <<"G", "e", "n", ".", " ", "1", ":", "1">>
C12_Gen_1_1 == <<"G", "e", "n", " ", "1", ":", "1">>

\* C12: a key holds no sentence punctuation, and "Gen. 1:1" has the key of
\* "Gen 1:1".
C12_PunctuationStripped ==
    npc = "once" =>
        /\ \A i \in DOMAIN ny : ny[i] \notin C12_Punctuation
        /\ nx = C12_Gen_dot_1_1 => ny = normalize_text(C12_Gen_1_1)


\* the input holds no <span>: the verses are read in plain mode
C13_PlainMode == \A i \in DOMAIN f_html_content : f_html_content[i] \notin SpanOpen

\* C13: in plain mode the sentinel line "(<module>)" is never part of the
\* text of a verse: no line of a parsed verse is the sentinel line.
C13_SentinelNeverVerseText ==
    f_pc = "parsed" /\ C13_PlainMode =>
        \A i \in DOMAIN f_verses_raw :
            \A j \in DOMAIN f_verses_raw[i].lines :
                f_verses_raw[i].lines[j] # SentinelLine(ESV)


\* the text of a verse with the newlines between its input lines as blanks
C14_Spaced(s) == [i \in DOMAIN s |-> IF s[i] = "\n" THEN " " ELSE s[i]]

\* one plus the number of end/start pairs, with only whitespace between
\* them, that separate non-empty text: the number of non-empty pieces the
\* text falls into at these pairs
C14_LinesByRule(s) ==
    Len(StripNonBlank(Split(Without(BreakAtAdjacentMarkers(C14_Spaced(s), 1), Tags), "\n")))

\* the verse at hand ends at this line of the input
C14_VerseEnds ==
    /\ w_pc = "lines"
    /\ w_current_verse_info # <<>>
    /\ w_current_verse_parts # <<>>
    /\ \/ w_line > Len(w_lines)
       \/ IsSentinel(w_stripped, w_args.module)
       \/ IsVerseStart(w_stripped)

\* C14: the text of a verse has one line more than it has end-line markers
\* followed, after whitespace only, by a start-line marker between
\* non-empty texts; no other line marker breaks a line.
C14_AdjacencyRule ==
    C14_VerseEnds =>
        LET text == FormattedText(ProcessedParts(w_current_verse_parts,
                                                 w_args.format, w_args.options))
        IN  text # <<>> =>
              Len(Split(text, "\n")) = C14_LinesByRule(Join(w_current_verse_parts, <<"\n">>))


\* C15: every verse the parser returns has at least one line and no empty
\* line; a verse whose content comes to nothing is left out.
C15_NoEmptyVerse ==
    f_pc = "parsed" =>
        \A i \in DOMAIN f_verses_raw :
            /\ Len(f_verses_raw[i].lines) >= 1
            /\ \A j \in DOMAIN f_verses_raw[i].lines : f_verses_raw[i].lines[j] # <<>>


\* the verses of a passage, each with the book and chapter of the passage
C16_VersesOf(p) ==
    [j \in DOMAIN p.verses |->
        [book |-> p.book, chapter |-> p.chapter,
         verse_number |-> p.verses[j].verse_number, lines |-> p.verses[j].lines,
         has_smallcaps |-> p.verses[j].has_smallcaps, notes |-> p.verses[j].notes]]

\* the places of the verse sequence where the book or the chapter changes
C16_Changes ==
    {i \in 1..(Len(f_verses_raw) - 1) :
        \/ f_verses_raw[i].book # f_verses_raw[i + 1].book
        \/ f_verses_raw[i].chapter # f_verses_raw[i + 1].chapter}

\* C16: the passages are the maximal runs of the verse sequence: the verses
\* of the passages, in order, are the verse sequence; adjacent passages
\* differ in book or chapter; and there is one passage per run, so runs of
\* the same book and chapter with a passage between them stay apart.
C16_MaximalRuns ==
    f_pc = "passages" =>
        /\ Flatten([i \in DOMAIN f_passages |-> C16_VersesOf(f_passages[i])])
             = f_verses_raw
        /\ \A i \in DOMAIN f_passages : f_passages[i].verses # <<>>
        /\ \A i \in 1..(Len(f_passages) - 1) :
              \/ f_passages[i].book # f_passages[i + 1].book
              \/ f_passages[i].chapter # f_passages[i + 1].chapter
        /\ Len(f_passages) = Cardinality(C16_Changes) + 1

\* three passages, the first and the third of the same book and chapter
C16_Witness ==
    /\ f_pc = "passages"
    /\ Len(f_passages) = 3
    /\ f_passages[1].book = f_passages[3].book
    /\ f_passages[1].chapter = f_passages[3].chapter


\* the verse part of the citation that ends a formatted passage: the text
\* of its last line between the last colon and the blank or parenthesis
\* that follows
C17_CitedVerses(formatted) ==
    LET lines == Split(formatted, "\n")
        last == lines[Len(lines)]
        colon == CHOOSE p \in DOMAIN last :
                    /\ last[p] = ":"
                    /\ \A q \in (p + 1)..Len(last) : last[q] # ":"
        stop == CHOOSE q \in (colon + 1)..Len(last) :
                    /\ last[q] \in {" ", ")"}
                    /\ \A r \in (colon + 1)..(q - 1) : last[r] \notin {" ", ")"}
    IN  SubSeq(last, colon + 1, stop - 1)

\* every verse of the passage is numbered one more than the verse before it
C17_Consecutive(p) ==
    \A i \in 1..(Len(p.verse_lines) - 1) :
        ToInt(p.verse_lines[i + 1][1]) = ToInt(p.verse_lines[i][1]) + 1

\* C17: format_passage cites a passage whose first and last verse differ
\* as "first-last" if and only if its verses are consecutive, and as the
\* list of all its verse numbers, in order, with commas otherwise.
C17_DashIffConsecutive ==
    \A i \in DOMAIN w_formatted_passages :
        LET p == w_passages[i]
            cited == C17_CitedVerses(w_formatted_passages[i])
        IN  p.first_verse # p.last_verse =>
              /\ C17_Consecutive(p) <=> cited = p.first_verse \o <<"-">> \o p.last_verse
              /\ ~C17_Consecutive(p) =>
                    cited = Join([j \in DOMAIN p.verse_lines |-> p.verse_lines[j][1]],
                                 <<",">>)

\* the verses 9 and 11 have been cited as "9,11"
C17_Witness ==
    /\ Len(w_formatted_passages) = 1
    /\ [j \in DOMAIN w_passages[1].verse_lines |-> w_passages[1].verse_lines[j][1]]
         = << <<"9">>, <<"1", "1">> >>
    /\ C17_CitedVerses(w_formatted_passages[1]) = <<"9", ",", "1", "1">>


\* every verse of the passage is numbered one more than the verse before it
C18_Consecutive(p) ==
    \A i \in 1..(Len(p.verses) - 1) :
        p.verses[i + 1].verse_number = p.verses[i].verse_number + 1

\* the verse part of a citation: one verse, a range or a list
C18_VersePart(p) ==
    LET first == ToStr(p.verses[1].verse_number)
        last == ToStr(p.verses[Len(p.verses)].verse_number)
    IN  IF first = last THEN first
        ELSE IF C18_Consecutive(p) THEN first \o <<"-">> \o last
        ELSE Join([i \in DOMAIN p.verses |-> ToStr(p.verses[i].verse_number)], <<",">>)

\* C18: the citation that follows a rendered passage names one verse when
\* the first verse is the last, a range "first-last" when the verses are
\* consecutive, and the list of the verses with commas when they are not.
C18_VersePartOfCitation ==
    f_args.ref_type = "inline" /\ f_args.ref_pos = "end" =>
        \A i \in DOMAIN f_outputs :
            C17_CitedVerses(f_outputs[i]) = C18_VersePart(f_passages[i])


\* the two ends of the envelope of a format: the verse environment of
\* LaTeX and the verse block of Org
C19_Open(fmt) == IF fmt = "tex" THEN <<"\\", "b", "e", "g", "i", "n", "{", "v", "e", "r", "s", "e", "}", "\n">> ELSE <<"#", "+", "B", "E", "G", "I", "N", "_", "V", "E", "R", "S", "E", "\n">>
C19_Close(fmt) == IF fmt = "tex" THEN <<"\n", "\\", "e", "n", "d", "{", "v", "e", "r", "s", "e", "}">> ELSE <<"\n", "#", "+", "E", "N", "D", "_", "V", "E", "R", "S", "E">>

\* the envelope opens once, closes once after that, and holds the text of
\* every line of every verse of the passage
C19_Wrapped(out, fmt) ==
    \E a, b \in DOMAIN out :
        /\ MatchAt(out, a, C19_Open(fmt))
        /\ MatchAt(out, b, C19_Close(fmt))
        /\ a + Len(C19_Open(fmt)) <= b
        /\ \A c \in DOMAIN out :
              /\ MatchAt(out, c, C19_Open(fmt)) => c = a
              /\ MatchAt(out, c, C19_Close(fmt)) => c = b

\* no end of the envelope is in the output
C19_Bare(out, fmt) ==
    \A c \in DOMAIN out :
        /\ ~MatchAt(out, c, C19_Open(fmt))
        /\ ~MatchAt(out, c, C19_Close(fmt))

\* each rendered passage is in the envelope if one of its verses has two
\* or more lines, and is not if each of its verses has one line
C19_EnvelopeIffPoetry ==
    \A i \in DOMAIN f_outputs :
        LET verses == f_passages[i].verses
            fmt == Normalized(f_args.format)
        IN  /\ (\E v \in DOMAIN verses : Len(verses[v].lines) >= 2)
                  => C19_Wrapped(f_outputs[i], fmt)
            /\ (\A v \in DOMAIN verses : Len(verses[v].lines) = 1)
                  => C19_Bare(f_outputs[i], fmt)

\* C19 as stated: in LaTeX and in Org, under any configuration, a passage
\* is rendered in the envelope if and only if it has a verse of two or more
\* lines.
C19_EnvelopeAnyConfig ==
    Normalized(f_args.format) \in {"tex", "org"} => C19_EnvelopeIffPoetry

\* C19, amended: in LaTeX and in Org, under any configuration whose style is
\* not simple, a passage is rendered in the envelope if and only if it has a
\* verse of two or more lines.
C19_EnvelopeUnlessSimple ==
    Normalized(f_args.format) \in {"tex", "org"} /\ f_args.style # "simple"
        => C19_EnvelopeIffPoetry

\* a passage with a verse of two lines and a passage of one verse of one
\* line have been rendered in LaTeX, style table: the first in the
\* environment, the second not
C19_Witness ==
    /\ Normalized(f_args.format) = "tex"
    /\ f_args.style = "table"
    /\ Len(f_outputs) = 2
    /\ \E v \in DOMAIN f_passages[1].verses : Len(f_passages[1].verses[v].lines) >= 2
    /\ C19_Wrapped(f_outputs[1], "tex")
    /\ C19_Bare(f_outputs[2], "tex")


\* the notes of the source text of a verse from position p on: each opening
\* note tag with the text up to the closing tag after it, empty notes left
\* out; k notes come before
RECURSIVE C20_SourceNotes(_, _, _)
C20_SourceNotes(s, p, k) ==
    IF p > Len(s) THEN <<>>
    ELSE LET q == LazyEnd(s, p + 1, NoteClose, TRUE)
         IN  IF s[p] \in NoteOpen /\ q > 0
             THEN IF Strip(SubSeq(s, p + 1, q - 1)) = <<>>
                  THEN C20_SourceNotes(s, q + 1, k)
                  ELSE <<[label |-> NoteAttrs[s[p]].label,
                          content |-> Strip(SubSeq(s, p + 1, q - 1)),
                          marker |-> IF NoteAttrs[s[p]].marker # <<>>
                                     THEN NoteAttrs[s[p]].marker[1]
                                     ELSE ToStr(k + 1)]>>
                       \o C20_SourceNotes(s, q + 1, k + 1)
             ELSE C20_SourceNotes(s, p + 1, k)

\* C20: the notes of a verse are the non-empty notes of its source text, in
\* order, each with the marker the source gives it or else with its place
\* among the notes of the verse, and labelled ref (cross reference) or note.
C20_NoteMarkers ==
    f_pc = "parsed" /\ ~C13_PlainMode =>
        LET blocks == SpanBlocks(Without(f_html_content, ChapterTags \cup DivTags), 1)
        IN  Len(blocks) = Len(f_verses_raw) =>
              \A i \in DOMAIN blocks :
                  f_verses_raw[i].notes = C20_SourceNotes(blocks[i].verse_content, 1, 0)

\* the run is over, its citations were asked for as footnotes, and the
\* format has no footnote of its own
C21_Case ==
    /\ f_pc = "done"
    /\ f_args.ref_type = "footnote"
    /\ f_args.ref_pos # "none"
    /\ Normalized(f_args.format) \in {"md", "org"}

\* the lines of the document
C21_Lines == Split(f_stdout[1], "\n")

\* a footer line: the marker of the format, a blank, the citation
C21_IsFooter(line) ==
    LET marker == ref_marker(Normalized(f_args.format))
    IN  /\ Len(line) > Len(marker) + 1
        /\ MatchAt(line, 1, marker \o <<" ">>)

\* a line that is the marker alone
C21_IsMarker(line) == line = ref_marker(Normalized(f_args.format))

\* C21: with footnote citations in markdown or org every passage carries
\* the inline marker, there is one footer line for each passage, and no
\* line of a passage comes after a footer line: the footer lines are the end
\* of the document.
C21_FootersDeferred ==
    C21_Case =>
        /\ Cardinality({i \in DOMAIN C21_Lines : C21_IsMarker(C21_Lines[i])})
             = Len(f_passages)
        /\ Cardinality({i \in DOMAIN C21_Lines : C21_IsFooter(C21_Lines[i])})
             = Len(f_passages)
        /\ \A i, j \in DOMAIN C21_Lines :
              (i < j /\ C21_IsFooter(C21_Lines[i])) => C21_IsFooter(C21_Lines[j])

\* the run is over and one citation was asked for, for all passages
C22_Case ==
    /\ f_pc = "done"
    /\ f_args.ref_type = "combined"
    /\ f_args.ref_pos # "none"

\* the bodies of the passages, none with a citation
C22_Bodies ==
    Join([i \in DOMAIN f_passages |->
            passage_out_of(f_passages[i].verses, f_args)], <<"\n", "\n">>)

\* the citation texts of the passages, in the order of the passages
C22_Refs ==
    [i \in DOMAIN f_passages |->
        format_ref_text(f_passages[i].book, f_passages[i].chapter,
                        verse_range_of(f_passages[i].verses), f_module,
                        f_args.book_style, f_args.version_abbrev)]

\* the one citation block
C22_Block ==
    wrap_ref_inline(Normalized(f_args.format), Join(C22_Refs, <<";", " ">>))

\* C22 as stated: with combined citations the document is the bodies of the
\* passages, none with a citation of its own, and after them the one block
\* of all citation texts joined with "; ".
C22_BlockAfterBodies ==
    C22_Case => f_stdout = <<C22_Bodies \o <<"\n">> \o C22_Block>>

\* C22: with combined citations the document is the bodies of the passages,
\* none with a citation of its own, and the one block of all citation texts
\* joined with "; ": after the bodies when the position is end, before them
\* when it is start.
C22_OneBlock ==
    C22_Case =>
        f_stdout = << IF f_args.ref_pos = "start"
                      THEN C22_Block \o <<"\n">> \o C22_Bodies
                      ELSE C22_Bodies \o <<"\n">> \o C22_Block >>

\* a run of two passages ended with combined citations
C22_Witness == C22_Case /\ Len(f_passages) = 2 /\ f_args.ref_pos = "end"

\* the kinds of annotation in their fixed order, each with its label, the
\* letters of --options that ask for it and its values on the word of a tag
C23_Kinds(tag) ==
    << [label |-> <<"S", "t", "r">>, letters |-> {"n"}, values |-> WTable[tag].strongs],
       [label |-> <<"L", "e", "m", "m", "a">>, letters |-> {"l"}, values |-> WTable[tag].lemmas],
       [label |-> <<"M", "o", "r", "p", "h">>, letters |-> {"m", "M"}, values |-> WTable[tag].morphs] >>

\* the kinds that are asked for and have a value on the word
C23_Listed(tag, options) ==
    SelectSeq(C23_Kinds(tag),
              LAMBDA k : /\ \E i \in DOMAIN options : options[i] \in k.letters
                         /\ k.values # <<>>)

\* what follows the word: nothing, or a blank and the listed kinds in
\* brackets
C23_Suffix(tag, options) ==
    LET listed == C23_Listed(tag, options)
    IN  IF listed = <<>> THEN <<>>
        ELSE <<" ", "[">>
             \o Join([i \in DOMAIN listed |->
                        listed[i].label \o <<" ">> \o Join(listed[i].values, <<",">>)],
                     <<" ", "|", " ">>)
             \o <<"]">>

\* the items as they are to be rendered
C23_Rendered(items, options) ==
    Flatten([i \in DOMAIN items |->
               IF items[i].tag = <<>> THEN items[i].content
               ELSE items[i].content \o C23_Suffix(items[i].tag[1], options)])

\* C23: render_w_tags leaves the characters outside the words alone and
\* replaces each word in a <w> tag by its content and one bracketed suffix
\* that lists the requested kinds that have a value on the word, in the
\* order Strongs, Lemma, Morph whatever the order of the attributes, joined
\* with " | ", the values of a kind joined with ","; a word with none gets
\* no suffix, and so does every word when no kind is requested.
C23_Annotations ==
    rw_pc = "done" =>
        \A items \in SeqsUpTo(TagItems, MaxWords) :
            ItemsText(items) = rw_src =>
                /\ rw_out = C23_Rendered(items, rw_options)
                /\ (\A i \in DOMAIN rw_options : rw_options[i] \notin {"n", "l", "m", "M"})
                      => rw_out = Flatten([i \in DOMAIN items |-> items[i].content])

\* a word with its morphology written before its lemma and its Strong's
\* number was rendered with all three kinds
C23_Witness ==
    /\ rw_pc = "done"
    /\ rw_options = <<"M", "l", "n", "f">>
    /\ rw_src = <<"<w morph=\"morph:V\" lemma=\"lemma.TR:x strong:G4\">", "a", WClose>>
    /\ rw_out = <<"a", " ", "[", "S", "t", "r", " ", "G", "4", " ", "|", " ", "L", "e", "m", "m", "a", " ", "x", " ", "|", " ", "M", "o", "r", "p", "h", " ", "V", "]">>

\* bible-to-format_v2.py has ended and had no verse from its payload
C24_FmtNoVerses == f_pc \in {"done", "exit1"} /\ f_verses_raw = <<>>

\* bible-format-wrapper.py has ended on its plain path and had no passage
\* from its payload
C24_WrapNoVerses ==
    /\ w_pc = "done"
    /\ ~w_args.raw
    /\ ToLower(w_args.format) = plain
    /\ w_passages = <<>>

\* C24: a run of either program whose payload gives no verse ends with a
\* failure status and prints no passage.
C24_NoVersesFatal ==
    /\ C24_FmtNoVerses => (f_pc = "exit1" /\ f_stdout = <<>>)
    /\ C24_WrapNoVerses => (w_exit # <<0>> /\ w_stdout \in {<<>>, << <<>> >>})

\* what one fragment makes of the context of its reference: the context is
\* [last_book, last_chapter, result, error], error empty until a fragment
\* fails
C25_Fragment(st, part, mapping) ==
    LET i == BookPrefixLen(part, mapping)
        fail(e) == [st EXCEPT !.error = <<[error |-> e, arg |-> part]>>]
    IN  IF st.error # <<>> THEN st
        ELSE IF i > 0
        THEN [st EXCEPT !.result = Append(@, part),
                        !.last_book = BookText(part, i),
                        !.last_chapter = ChapterAfterBook(part, i, @)]
        ELSE IF Contains(part, ":")
        THEN IF Truthy(st.last_book)
             THEN [st EXCEPT !.result = Append(@, WithBook(st.last_book, part)),
                             !.last_chapter = BeforeColon(part)]
             ELSE fail("MissingBookContext")
        ELSE IF IsVerseNumber(part)
        THEN IF Truthy(st.last_book) /\ Truthy(st.last_chapter)
             THEN [st EXCEPT !.result =
                       Append(@, WithBookAndChapter(st.last_book, st.last_chapter, part))]
             ELSE IF Truthy(st.last_book)
             THEN [st EXCEPT !.result = Append(@, WithBook(st.last_book, part)),
                             !.last_chapter = part]
             ELSE fail("MissingBookOrChapterContext")
        ELSE [st EXCEPT !.result = Append(@, part)]

\* the fragments of one part between semicolons, in order
RECURSIVE C25_Fragments(_, _, _)
C25_Fragments(st, parts, mapping) ==
    IF parts = <<>> THEN st
    ELSE C25_Fragments(C25_Fragment(st, Head(parts), mapping), Tail(parts), mapping)

\* the parts between semicolons, in order; the chapter is forgotten after
\* each
RECURSIVE C25_SemiParts(_, _, _)
C25_SemiParts(st, parts, mapping) ==
    IF parts = <<>> THEN st
    ELSE C25_SemiParts(
             [C25_Fragments(st, NonBlankParts(Head(parts), ","), mapping)
                 EXCEPT !.last_chapter = None],
             Tail(parts), mapping)

\* the Expander as a function of the reference alone
C25_Expand(reference, include) ==
    C25_SemiParts([last_book |-> None, last_chapter |-> None, result |-> <<>>,
                   error |-> <<>>],
                  IF Strip(reference) = <<>> THEN <<>>
                  ELSE NonBlankParts(reference, ";"),
                  Mapping(include))

\* the Builder on each fragment: the first failure, if there is one
C25_Failures(fragments, include) ==
    SelectSeq([k \in DOMAIN fragments |-> parse_reference(fragments[k], include)],
              LAMBDA r : ~r.ok)

\* the result of a reference as a function of the reference alone: its
\* compound key, or its failure
C25_Outcome(reference, include) ==
    LET e == C25_Expand(reference, include)
        failures == C25_Failures(e.result, include)
    IN  IF e.error # <<>> THEN [ok |-> FALSE, error |-> e.error[1].error, arg |-> e.error[1].arg]
        ELSE IF failures # <<>>
        THEN [ok |-> FALSE, error |-> failures[1].error, arg |-> failures[1].value]
        ELSE [ok |-> TRUE,
              key |-> CombinedReference(
                         [k \in DOMAIN e.result |->
                             parse_reference(e.result[k], include).value])]

\* C25: the result of every reference of a run, its fragment list, its
\* compound key or its failure, is the result of that reference alone,
\* whatever was resolved before it (looked at each time main is back at its
\* loop); a reference starts with no last book and no last chapter.
C25_PurePerReference ==
    /\ pc = "loop" =>
          /\ \A k \in DOMAIN calls :
                C25_Outcome(references[calls[k].ref], include_apocrypha)
                  = [ok |-> TRUE, key |-> calls[k].key]
          /\ \A k \in DOMAIN stderr :
                C25_Outcome(references[stderr[k].ref], include_apocrypha)
                  = [ok |-> FALSE, error |-> stderr[k].error, arg |-> stderr[k].arg]
    /\ (pc = "convert" /\ idx <= Len(references))
          => expanded_refs = C25_Expand(ref, include_apocrypha).result
    /\ (pc = "semi" /\ si = 1) => (last_book = None /\ last_chapter = None)

\* the second reference of a batch failed for want of a book although the
\* first one had a book and a chapter
C25_Witness ==
    /\ pc = "done"
    /\ Len(references) = 2
    /\ \E k \in DOMAIN calls : calls[k].ref = 1
    /\ \E k \in DOMAIN stderr :
          stderr[k].ref = 2 /\ stderr[k].error = "MissingBookContext"

\* the citation that ends a formatted passage: its last line
C26_Citation(formatted) ==
    LET lines == Split(formatted, "\n") IN lines[Len(lines)]

\* the full name of a book for a module: the Dutch name for a Dutch
\* version, the English name for an English one
C26_FullName(book, module) ==
    IF module = DutSVV
    THEN DictGet(BIBLE_CONFIGS[DutSVV].dutch_names[1], book, book)
    ELSE book

\* the abbreviation of a book for a module
C26_Abbreviation(book, module) ==
    DictGet(BIBLE_CONFIGS[module].abbreviations, book, book)

\* C26: format_passage cites a passage with the full name of its book under
\* the styles full-with-version and full-no-version, whatever the module,
\* and with the abbreviation under the abbreviated styles; the version tag
\* ends the citation under the with-version styles and is absent under the
\* no-version styles.
C26_ReferenceStyles ==
    \A i \in DOMAIN w_formatted_passages :
        LET p == w_passages[i]
            style == w_args.reference_style
            citation == C26_Citation(w_formatted_passages[i])
            name == IF style \in {"full-with-version", "full-no-version"}
                    THEN C26_FullName(p.book, w_args.module)
                    ELSE C26_Abbreviation(p.book, w_args.module)
            tagged == <<" ">> \o BIBLE_CONFIGS[w_args.module].tag \o <<")">>
        IN  /\ MatchAt(citation, 1,
                       <<"(">> \o name \o <<" ">> \o p.chapter \o <<":">>)
            /\ IF style \in {"full-with-version", "abbreviated-with-version"}
               THEN MatchAt(citation, Len(citation) - Len(tagged) + 1, tagged)
               ELSE /\ citation[Len(citation)] = ")"
                    /\ citation[Len(citation) - 1] \in Digits

\* the fragment sets last_chapter in the context st (lines 237-239, 251 and
\* 265)
C27_SetsChapter(st, part, mapping) ==
    LET i == BookPrefixLen(part, mapping)
        tokens == SplitWS(part)
    IN  IF i > 0
        THEN Contains(Join(SubSeq(tokens, i + 1, Len(tokens)), <<" ">>), ":")
        ELSE IF Contains(part, ":") THEN Truthy(st.last_book)
        ELSE /\ IsVerseNumber(part)
             /\ ~(Truthy(st.last_book) /\ Truthy(st.last_chapter))
             /\ Truthy(st.last_book)

\* the context after the fragments, and with it the owner of the chapter:
\* the last book at the time last_chapter was set
RECURSIVE C27_Fragments(_, _, _)
C27_Fragments(h, parts, mapping) ==
    IF parts = <<>> THEN h
    ELSE LET st == C25_Fragment(h.st, Head(parts), mapping)
         IN  C27_Fragments(
                 [st |-> st,
                  owner |-> IF C27_SetsChapter(h.st, Head(parts), mapping)
                            THEN st.last_book ELSE h.owner],
                 Tail(parts), mapping)

RECURSIVE C27_SemiParts(_, _, _)
C27_SemiParts(h, parts, mapping) ==
    IF parts = <<>> THEN h
    ELSE LET g == C27_Fragments(h, NonBlankParts(Head(parts), ","), mapping)
         IN  C27_SemiParts([g EXCEPT !.st.last_chapter = None], Tail(parts), mapping)

\* the context and the owner of the chapter at the fragment at hand
C27_History ==
    C27_Fragments(
        C27_SemiParts([st |-> [last_book |-> None, last_chapter |-> None,
                               result |-> <<>>, error |-> <<>>],
                       owner |-> None],
                      SubSeq(semicolon_parts, 1, si - 1), Table),
        SubSeq(comma_parts, 1, ci - 1), Table)

\* the book an alias text names
C27_BookOf(text) ==
    LET key == Join(NormalizeEach(SplitWS(text)), <<" ">>)
    IN  IF key \in DOMAIN Table THEN Table[key] ELSE Table[RemoveSpaces(key)]

\* the fragment at hand is a bare integer that is emitted with the last
\* book and the last chapter
C27_VerseOfChapter ==
    /\ InFragment
    /\ ~HasOwnBook
    /\ ~Contains(comma_part, ":")
    /\ IsVerseNumber(comma_part)
    /\ HasChapterContext(last_book, last_chapter)

\* C27: whenever a bare integer is emitted as "last_book last_chapter:n",
\* last_chapter was set while the book was the one last_book names now: a
\* chapter is never combined with a book it was not given for.
C27_ChapterOfItsBook ==
    C27_VerseOfChapter =>
        /\ C27_History.st.last_book = last_book
        /\ C27_History.st.last_chapter = last_chapter
        /\ C27_BookOf(C27_History.owner) = C27_BookOf(last_book)


\* C28: the lookup is never invoked with an empty compound key: a reference
\* that expands to no fragments is reported as a failed reference, with a
\* non-zero status, instead of being handed to run_diatheke.
C28_NoEmptyKey ==
    /\ \A c \in DOMAIN calls : calls[c].key # <<>>
    /\ pc = "loop" =>
           \A r \in 1..(idx - 1) :
               (LET e == C25_Expand(references[r], include_apocrypha)
                IN  e.result = <<>> /\ e.error = <<>>)
               => /\ \E e \in DOMAIN stderr : stderr[e].ref = r
                  /\ exit_code # 0


\* a reference that is one fragment, without ',' or ';', that the Builder
\* resolves on its own
C29_Resolved(reference) ==
    /\ ~Contains(reference, ",")
    /\ ~Contains(reference, ";")
    /\ parse_reference(reference, include_apocrypha).ok

\* C29: the Expander is transparent for single fragments: every reference
\* without ',' or ';' that the Builder resolves on its own is, after the
\* Expander and then the Builder, looked up under the same canonical string
\* (looked at each time main is back at its loop).
C29_ExpanderTransparent ==
    pc = "loop" =>
        \A r \in 1..(idx - 1) :
            C29_Resolved(references[r]) =>
                \E c \in DOMAIN calls :
                    /\ calls[c].ref = r
                    /\ calls[c].key
                         = parse_reference(references[r], include_apocrypha).value


\* the stripped lines of the payload, and which of them start a verse or end
\* the payload
C30_Line(i) == Strip(w_lines[i])
C30_Sentinel(i) == IsSentinel(C30_Line(i), w_args.module)
C30_VerseStart(i) == ~C30_Sentinel(i) /\ IsVerseStart(C30_Line(i))

\* the lines that continue the verse that starts at line i: the lines that
\* are not blank between it and the next verse start or sentinel
C30_Continuation(i) ==
    LET ends == {j \in (i + 1)..Len(w_lines) : C30_VerseStart(j) \/ C30_Sentinel(j)}
        end == IF ends = {} THEN Len(w_lines) + 1
               ELSE CHOOSE j \in ends : \A k \in ends : j <= k
    IN  SelectSeq([j \in 1..(end - 1 - i) |-> C30_Line(i + j)],
                  LAMBDA line : line # <<>>)

\* the verse of line i: book, chapter, number and processed text; nothing
\* when the line starts no verse or the processed text is empty
C30_VerseAt(i) ==
    IF ~C30_VerseStart(i) THEN <<>>
    ELSE LET g == VerseStartGroups(C30_Line(i))
             parts == (IF g.text # <<>> THEN <<g.text>> ELSE <<>>)
                          \o C30_Continuation(i)
             text == FormattedText(ProcessedParts(parts, w_args.format,
                                                  w_args.options))
         IN  IF text = <<>> THEN <<>>
             ELSE <<[book |-> g.book, chapter |-> g.chapter, verse |-> g.verse,
                     text |-> text]>>

\* the verses of the input, in input order
C30_Input ==
    LET at == [i \in DOMAIN w_lines |-> C30_VerseAt(i)]
        RECURSIVE Flat(_)
        Flat(i) == IF i > Len(w_lines) THEN <<>> ELSE at[i] \o Flat(i + 1)
    IN  Flat(1)

\* the verses of the passages, one after the other
C30_Emitted ==
    LET of(p) == [k \in DOMAIN p.verse_lines |->
                     [book |-> p.book, chapter |-> p.chapter,
                      verse |-> p.verse_lines[k][1], text |-> p.verse_lines[k][2]]]
        RECURSIVE Flat(_)
        Flat(n) == IF n > Len(w_passages) THEN <<>>
                   ELSE of(w_passages[n]) \o Flat(n + 1)
    IN  Flat(1)

\* C30: whatever the lines, with the sentinel present, absent or in the
\* middle, the passages parse_diatheke_output returns hold at least one
\* verse each, first_verse and last_verse are the numbers of the first and
\* the last verse of the list, and the verses of the passages, one after the
\* other, are the verse-start lines with a processed text that is not empty,
\* each once and in input order.
C30_PassagesWellFormed ==
    w_pc = "format" =>
        /\ \A n \in DOMAIN w_passages :
               LET p == w_passages[n]
               IN  /\ p.verse_lines # <<>>
                   /\ p.first_verse = p.verse_lines[1][1]
                   /\ p.last_verse = p.verse_lines[Len(p.verse_lines)][1]
        /\ C30_Emitted = C30_Input

\* a payload with the sentinel in the middle gave two passages
C30_Witness ==
    /\ w_pc = "format"
    /\ Len(w_passages) = 2
    /\ \E i \in 1..(Len(w_lines) - 1) : C30_Sentinel(i)

=============================================================================
